---- MODULE Spec2Model ----
(***************************************************************************)
(* A model of the coda56-exporter: the string-to-number conversions of    *)
(* strconv that main.go relies on, parseComplexOctets, the ModemClient     *)
(* (get and the six decoders) and MetricsCollector.Collect with the        *)
(* metric vectors it keeps between scrapes.                                *)
(*                                                                         *)
(* Strings are sequences of one-character strings.  Integers wider than    *)
(* TLC's own are sequences of limbs (base 2^15, least significant first,   *)
(* no leading zero limb; << >> is zero).  An int64 is [neg, mag]; a        *)
(* float64 is [k, neg, m, e] standing for (-1)^neg * m * 2^e with m odd    *)
(* and below 2^53, or an infinity, or NaN.                                 *)
(***************************************************************************)
EXTENDS Integers, Sequences, FiniteSets, TLC

(***************************************************************************)
(* The program's state, and the modem it polls.                            *)
(*   goarch    the build target of the running binary                      *)
(*   device    what the modem answers now, per endpoint                    *)
(*   collector the MetricsCollector: its 23 metric vectors, each a map     *)
(*             from a tuple of label values to the series' value (a        *)
(*             float64 for a gauge, the uint64 count for a counter)        *)
(*   running   FALSE once a panic in Collect has ended the process         *)
(*   log       one entry per Collect invocation, in order                  *)
(*   changes   how often the modem's answers have changed                  *)
(*   arg, ret  the argument and the result of a call of                    *)
(*             parseComplexOctets on its own                               *)
(*   calls     the Collect invocations under way at the same time, each    *)
(*             with the number of sections it has done                     *)
(***************************************************************************)
VARIABLES goarch, device, collector, running, log, changes, arg, ret, calls

vars == <<goarch, device, collector, running, log, changes, arg, ret, calls>>

\* TLC unfolds an operator at each place it is applied, and stops only where
\* an operator is applied within its own definition.  To keep the unfolding
\* small, the larger operators F(x, y) are defined as Apply("F", <<x, y>>),
\* and FBody(x, y) is what F is.
RECURSIVE Apply(_, _)

(***************************************************************************)
(* Natural numbers of any width.                                           *)
(***************************************************************************)
RECURSIVE SmallBitLen(_)
SmallBitLen(n) == IF n = 0 THEN 0 ELSE 1 + SmallBitLen(n \div 2)

Base == 2 ^ 15

LimbBits == SmallBitLen(Base) - 1

\* In the recursions below, "CASE v = v -> w" is w: it makes TLC compute v
\* before it goes on, which keeps a long recursion from nesting one pending
\* argument inside the other.
Max2(a, b) == IF a >= b THEN a ELSE b

Min2(a, b) == IF a <= b THEN a ELSE b

RECURSIVE BNorm(_)
BNorm(a) ==
    IF a = << >> THEN << >>
    ELSE IF a[Len(a)] = 0 THEN BNorm(SubSeq(a, 1, Len(a) - 1)) ELSE a

BFromSmall(n) ==
    IF n = 0 THEN << >>
    ELSE IF n < Base THEN <<n>>
    ELSE IF n < Base * Base THEN <<n % Base, n \div Base>>
    ELSE <<n % Base, (n \div Base) % Base, n \div (Base * Base)>>

RECURSIVE BMulSmallC(_, _, _, _)
BMulSmallC(a, k, i, carry) ==
    IF i > Len(a) THEN BFromSmall(carry)
    ELSE LET t == a[i] * k + carry
         IN  CASE t = t -> <<t % Base>> \o BMulSmallC(a, k, i + 1, t \div Base)

\* a * k for 0 <= k <= Base
BMulSmall(a, k) == BNorm(BMulSmallC(a, k, 1, 0))

RECURSIVE BAddC(_, _, _, _)
BAddC(a, b, i, carry) ==
    IF i > Len(a) /\ i > Len(b) THEN BFromSmall(carry)
    ELSE LET x == IF i <= Len(a) THEN a[i] ELSE 0
             y == IF i <= Len(b) THEN b[i] ELSE 0
             t == x + y + carry
         IN  CASE t = t -> <<t % Base>> \o BAddC(a, b, i + 1, t \div Base)

BAdd(a, b) == BNorm(BAddC(a, b, 1, 0))

RECURSIVE BSubC(_, _, _, _)
BSubC(a, b, i, borrow) ==
    IF i > Len(a) THEN << >>
    ELSE LET y == IF i <= Len(b) THEN b[i] ELSE 0
             t == a[i] - y - borrow
         IN  IF t < 0 THEN <<t + Base>> \o BSubC(a, b, i + 1, 1)
             ELSE <<t>> \o BSubC(a, b, i + 1, 0)

\* a - b for a >= b
BSub(a, b) == BNorm(BSubC(a, b, 1, 0))

RECURSIVE BCmpAt(_, _, _)
BCmpAt(a, b, i) ==
    IF i = 0 THEN 0
    ELSE IF a[i] > b[i] THEN 1
    ELSE IF a[i] < b[i] THEN -1
    ELSE BCmpAt(a, b, i - 1)

\* -1, 0 or 1 as a < b, a = b, a > b
BCmp(a, b) ==
    IF Len(a) > Len(b) THEN 1
    ELSE IF Len(a) < Len(b) THEN -1
    ELSE BCmpAt(a, b, Len(a))

Zeros(n) == [i \in 1..n |-> 0]

RECURSIVE BMulAt(_, _, _, _)
BMulAt(a, b, i, acc) ==
    IF i > Len(b) THEN acc
    ELSE LET next == BAdd(acc, Zeros(i - 1) \o BMulSmall(a, b[i]))
         IN  CASE next = next -> BMulAt(a, b, i + 1, next)

BMul(a, b) == Apply("BMul", <<a, b>>)

BMulBody(a, b) == IF a = << >> \/ b = << >> THEN << >> ELSE BMulAt(a, b, 1, << >>)

RECURSIVE BDivSmallAt(_, _, _, _)
BDivSmallAt(a, k, i, rem) ==
    IF i = 0 THEN [q |-> << >>, r |-> rem]
    ELSE LET t == rem * Base + a[i]
             rest == BDivSmallAt(a, k, i - 1, t % k)
         IN  CASE t = t -> [q |-> rest.q \o <<t \div k>>, r |-> rest.r]

\* quotient and remainder of a by k, 0 < k < Base
BDivSmall(a, k) ==
    LET d == BDivSmallAt(a, k, Len(a), 0)
    IN  [q |-> BNorm(d.q), r |-> d.r]

BBitLen(a) ==
    IF a = << >> THEN 0 ELSE LimbBits * (Len(a) - 1) + SmallBitLen(a[Len(a)])

BOdd(a) == a # << >> /\ a[1] % 2 = 1

\* a * 2^n
BShl(a, n) ==
    IF a = << >> THEN << >>
    ELSE Zeros(n \div LimbBits) \o BMulSmall(a, 2 ^ (n % LimbBits))

\* a \div 2^n, and whether a bit was shifted out
BShr(a, n) ==
    LET k == n \div LimbBits
        r == n % LimbBits
        p == 2 ^ r
        h == 2 ^ (LimbBits - r)
        len == Len(a)
    IN  IF k >= len THEN [q |-> << >>, sticky |-> a # << >>]
        ELSE [q |-> BNorm([i \in 1..(len - k) |->
                        (a[i + k] \div p)
                        + (IF i + k < len THEN (a[i + k + 1] % p) * h ELSE 0)]),
              sticky |-> (\E i \in 1..k : a[i] # 0) \/ a[k + 1] % p # 0]

RECURSIVE SmallTrailingZeros(_)
SmallTrailingZeros(n) == IF n % 2 = 1 THEN 0 ELSE 1 + SmallTrailingZeros(n \div 2)

RECURSIVE BTrailingZerosAt(_, _)
BTrailingZerosAt(a, i) ==
    IF a[i] = 0 THEN LimbBits + BTrailingZerosAt(a, i + 1)
    ELSE SmallTrailingZeros(a[i])

BTrailingZeros(a) == IF a = << >> THEN 0 ELSE BTrailingZerosAt(a, 1)

\* 10^n, by squaring
RECURSIVE BPow10(_)
BPow10(n) ==
    IF n = 0 THEN <<1>>
    ELSE LET h == BPow10(n \div 2)
             sq == BMul(h, h)
         IN  CASE h = h -> IF n % 2 = 1 THEN BMulSmall(sq, 10) ELSE sq

(***************************************************************************)
(* int64 and float64 values.                                               *)
(***************************************************************************)
Two63 == BShl(<<1>>, 63)

Two64 == BShl(<<1>>, 64)

I64(neg, mag) == [neg |-> neg /\ mag # << >>, mag |-> mag]

I64Zero == I64(FALSE, << >>)

MaxInt64 == I64(FALSE, BSub(Two63, <<1>>))

MinInt64 == I64(TRUE, Two63)

\* float64: 53 bits of mantissa, the least exponent of a subnormal's last
\* bit, and the exponent no finite value reaches
MantBits == 53

MinExp == -1074

MaxExp == 1024

FZero(neg) == [k |-> "fin", neg |-> neg, m |-> << >>, e |-> 0]

FInf(neg) == [k |-> "inf", neg |-> neg, m |-> << >>, e |-> 0]

FNaN == [k |-> "nan", neg |-> FALSE, m |-> << >>, e |-> 0]

\* the canonical finite value (-1)^neg * m * 2^e, m below 2^53
FCanon(neg, m, e) ==
    IF m = << >> THEN FZero(neg)
    ELSE LET tz == BTrailingZeros(m)
         IN  [k |-> "fin", neg |-> neg, m |-> BShr(m, tz).q, e |-> e + tz]

\* (-1)^neg * (m * 2^e + a little, when sticky) rounded to the nearest
\* float64, ties to even; an infinity when it is out of range
FRound(neg, m, e, sticky) == Apply("FRound", <<neg, m, e, sticky>>)

FRoundBody(neg, m, e, sticky) ==
    LET L == BBitLen(m)
        sh == Max2(Max2(L - MantBits, MinExp - e), 0)
    IN  IF sh = 0 THEN
            (IF L + e > MaxExp THEN FInf(neg) ELSE FCanon(neg, m, e))
        ELSE
            LET g == BShr(m, sh - 1)
                guard == BOdd(g.q)
                rest == g.sticky \/ sticky
                q == BShr(g.q, 1).q
                up == guard /\ (rest \/ BOdd(q))
                r == IF up THEN BAdd(q, <<1>>) ELSE q
            IN  IF BBitLen(r) + e + sh > MaxExp THEN FInf(neg)
                ELSE FCanon(neg, r, e + sh)

\* float64(i) for an int64 i
FFromInt(i) == FRound(i.neg, i.mag, 0, FALSE)

FMul(a, b) == Apply("FMul", <<a, b>>)

FMulBody(a, b) ==
    IF a.k = "nan" \/ b.k = "nan" THEN FNaN
    ELSE IF a.k = "inf" \/ b.k = "inf" THEN
        (IF (a.k = "fin" /\ a.m = << >>) \/ (b.k = "fin" /\ b.m = << >>)
         THEN FNaN ELSE FInf(a.neg # b.neg))
    ELSE FRound(a.neg # b.neg, BMul(a.m, b.m), a.e + b.e, FALSE)

FAdd(a, b) == Apply("FAdd", <<a, b>>)

FAddBody(a, b) ==
    IF a.k = "nan" \/ b.k = "nan" THEN FNaN
    ELSE IF a.k = "inf" /\ b.k = "inf" THEN
        (IF a.neg = b.neg THEN a ELSE FNaN)
    ELSE IF a.k = "inf" THEN a
    ELSE IF b.k = "inf" THEN b
    ELSE IF a.m = << >> /\ b.m = << >> THEN FZero(a.neg /\ b.neg)
    ELSE IF a.m = << >> THEN b
    ELSE IF b.m = << >> THEN a
    ELSE LET e == Min2(a.e, b.e)
             x == BShl(a.m, a.e - e)
             y == BShl(b.m, b.e - e)
             c == BCmp(x, y)
         IN  IF a.neg = b.neg THEN FRound(a.neg, BAdd(x, y), e, FALSE)
             ELSE IF c = 0 THEN FZero(FALSE)
             ELSE IF c > 0 THEN FRound(a.neg, BSub(x, y), e, FALSE)
             ELSE FRound(b.neg, BSub(y, x), e, FALSE)

\* -1, 0, 1 as |a| < |b|, |a| = |b|, |a| > |b|, for finite a and b
FCmpMag(a, b) ==
    IF a.m = << >> /\ b.m = << >> THEN 0
    ELSE IF a.m = << >> THEN -1
    ELSE IF b.m = << >> THEN 1
    ELSE LET la == BBitLen(a.m) + a.e
             lb == BBitLen(b.m) + b.e
             e == Min2(a.e, b.e)
         IN  IF la > lb THEN 1
             ELSE IF la < lb THEN -1
             ELSE BCmp(BShl(a.m, a.e - e), BShl(b.m, b.e - e))

\* a > b as Go's operator > on float64 decides it
FGt(a, b) == Apply("FGt", <<a, b>>)

FGtBody(a, b) ==
    IF a.k = "nan" \/ b.k = "nan" THEN FALSE
    ELSE IF a.k = "inf" THEN ~a.neg /\ ~(b.k = "inf" /\ ~b.neg)
    ELSE IF b.k = "inf" THEN b.neg
    ELSE LET c == FCmpMag(a, b)
         IN  IF a.m = << >> /\ b.m = << >> THEN FALSE
             ELSE IF ~a.neg /\ b.neg THEN TRUE
             ELSE IF a.neg /\ ~b.neg THEN FALSE
             ELSE IF ~a.neg THEN c > 0
             ELSE c < 0

\* a < 0
FNegative(a) == FGt(FZero(FALSE), a)

\* The builds of the Go toolchain differ on int64(f) when f is NaN or out of
\* the int64 range (the language leaves the result to the implementation):
\* amd64 gives the least int64 for all of them, arm64 saturates and gives 0
\* for NaN, riscv64 saturates and gives the greatest int64 for NaN.
Archs == {"amd64", "arm64", "riscv64"}

OutOfRangeInt64(f, arch) ==
    IF arch = "amd64" THEN MinInt64
    ELSE IF f.k = "nan" THEN (IF arch = "arm64" THEN I64Zero ELSE MaxInt64)
    ELSE IF f.neg THEN MinInt64 ELSE MaxInt64

\* whether the truncation of f is an int64
FitsInt64(f) ==
    /\ f.k = "fin"
    /\ \/ f.m = << >>
       \/ BBitLen(f.m) + f.e <= 63
       \/ f.neg /\ f.m = <<1>> /\ f.e = 63

\* int64(f): f truncated towards zero
ToInt64(f, arch) ==
    IF ~FitsInt64(f) THEN OutOfRangeInt64(f, arch)
    ELSE IF f.e >= 0 THEN I64(f.neg, BShl(f.m, f.e))
    ELSE I64(f.neg, BShr(f.m, 0 - f.e).q)

(***************************************************************************)
(* Strings (sequences of characters) and the strings package.              *)
(***************************************************************************)
DigitChars == <<"0", "1", "2", "3", "4", "5", "6", "7", "8", "9">>

IsDigit(c) == \E i \in 1..10 : DigitChars[i] = c

DigitVal(c) == (CHOOSE i \in 1..10 : DigitChars[i] = c) - 1

UpperChars == <<"A", "B", "C", "D", "E", "F", "G", "H", "I", "J", "K", "L", "M",
                "N", "O", "P", "Q", "R", "S", "T", "U", "V", "W", "X", "Y", "Z">>

LowerChars == <<"a", "b", "c", "d", "e", "f", "g", "h", "i", "j", "k", "l", "m",
                "n", "o", "p", "q", "r", "s", "t", "u", "v", "w", "x", "y", "z">>

ToLower(c) ==
    IF \E i \in 1..26 : UpperChars[i] = c
    THEN LowerChars[CHOOSE i \in 1..26 : UpperChars[i] = c]
    ELSE c

IsSpace(c) == c \in {" ", "\t", "\n", "\r"}

Drop(s, n) == SubSeq(s, n + 1, Len(s))

HasPrefixAt(s, i, pre) ==
    /\ i + Len(pre) - 1 <= Len(s)
    /\ \A j \in 1..Len(pre) : s[i + j - 1] = pre[j]

RECURSIVE TrimLeft(_)
TrimLeft(s) ==
    IF s # << >> /\ IsSpace(s[1]) THEN TrimLeft(Tail(s)) ELSE s

RECURSIVE TrimRight(_)
TrimRight(s) ==
    IF s # << >> /\ IsSpace(s[Len(s)]) THEN TrimRight(SubSeq(s, 1, Len(s) - 1))
    ELSE s

\* strings.TrimSpace
TrimSpace(s) == TrimRight(TrimLeft(s))

\* strings.TrimSuffix
TrimSuffix(s, suffix) ==
    IF Len(suffix) <= Len(s) /\ HasPrefixAt(s, Len(s) - Len(suffix) + 1, suffix)
    THEN SubSeq(s, 1, Len(s) - Len(suffix))
    ELSE s

RECURSIVE SplitAt(_, _, _, _)
SplitAt(s, sep, start, i) ==
    IF i + Len(sep) - 1 > Len(s) THEN <<SubSeq(s, start, Len(s))>>
    ELSE IF HasPrefixAt(s, i, sep)
         THEN <<SubSeq(s, start, i - 1)>>
              \o SplitAt(s, sep, i + Len(sep), i + Len(sep))
         ELSE SplitAt(s, sep, start, i + 1)

\* strings.Split for a separator that is not empty
Split(s, sep) == SplitAt(s, sep, 1, 1)

(***************************************************************************)
(* strconv.ParseInt(s, 10, 64) and strconv.ParseFloat(s, 64).  Each gives  *)
(* [v, err] with err one of "nil", "syntax", "range".  The inputs of this  *)
(* model hold no underscore and no hexadecimal mantissa with a 'p'         *)
(* exponent, the two forms of ParseFloat's grammar that are left out.      *)
(***************************************************************************)
RECURSIVE ParseUintAt(_, _, _)
ParseUintAt(s, i, n) ==
    IF i > Len(s) THEN [v |-> n, err |-> "nil"]
    ELSE IF ~IsDigit(s[i]) THEN [v |-> << >>, err |-> "syntax"]
    ELSE LET n1 == BAdd(BMulSmall(n, 10), BFromSmall(DigitVal(s[i])))
         IN  IF BCmp(n1, Two64) >= 0
             THEN [v |-> BSub(Two64, <<1>>), err |-> "range"]
             ELSE ParseUintAt(s, i + 1, n1)

ParseInt(s) == Apply("ParseInt", <<s>>)

ParseIntBody(s) ==
    IF s = << >> THEN [v |-> I64Zero, err |-> "syntax"]
    ELSE LET neg == s[1] = "-"
             body == IF s[1] \in {"+", "-"} THEN Tail(s) ELSE s
             un == IF body = << >> THEN [v |-> << >>, err |-> "syntax"]
                   ELSE ParseUintAt(body, 1, << >>)
         IN  IF un.err = "syntax" THEN [v |-> I64Zero, err |-> "syntax"]
             ELSE IF ~neg /\ BCmp(un.v, Two63) >= 0
                  THEN [v |-> MaxInt64, err |-> "range"]
             ELSE IF neg /\ BCmp(un.v, Two63) > 0
                  THEN [v |-> MinInt64, err |-> "range"]
             ELSE [v |-> I64(neg, un.v), err |-> "nil"]

RECURSIVE CommonPrefixLenIgnoreCase(_, _)
CommonPrefixLenIgnoreCase(s, prefix) ==
    IF s = << >> \/ prefix = << >> \/ ToLower(s[1]) # prefix[1] THEN 0
    ELSE 1 + CommonPrefixLenIgnoreCase(Tail(s), Tail(prefix))

Infinity == <<"i", "n", "f", "i", "n", "i", "t", "y">>

\* strconv's special: [ok, v, n], n the characters taken
Special(s) ==
    LET signed == s # << >> /\ s[1] \in {"+", "-"}
        body == IF signed THEN Tail(s) ELSE s
        n == CommonPrefixLenIgnoreCase(body, Infinity)
        none == [ok |-> FALSE, v |-> FZero(FALSE), n |-> 0]
    IN  IF s = << >> THEN none
        ELSE IF signed \/ ToLower(s[1]) = "i" THEN
            (IF n >= 3
             THEN [ok |-> TRUE, v |-> FInf(s[1] = "-"),
                   n |-> (IF signed THEN 1 ELSE 0) + (IF n = 8 THEN 8 ELSE 3)]
             ELSE none)
        ELSE IF CommonPrefixLenIgnoreCase(s, <<"n", "a", "n">>) = 3
             THEN [ok |-> TRUE, v |-> FNaN, n |-> 3]
        ELSE none

\* the end of the mantissa that starts at i: the first place that holds
\* neither a digit nor the first '.'
RECURSIVE MantEnd(_, _, _)
MantEnd(s, i, sawdot) ==
    IF i > Len(s) THEN i
    ELSE IF IsDigit(s[i]) THEN MantEnd(s, i + 1, sawdot)
    ELSE IF s[i] = "." /\ ~sawdot THEN MantEnd(s, i + 1, TRUE)
    ELSE i

RECURSIVE DigitsOf(_)
DigitsOf(s) ==
    IF s = << >> THEN << >>
    ELSE IF IsDigit(s[1]) THEN <<s[1]>> \o DigitsOf(Tail(s))
    ELSE DigitsOf(Tail(s))

RECURSIVE FracDigits(_)
FracDigits(s) ==
    IF s = << >> THEN 0
    ELSE IF s[1] = "." THEN Len(s) - 1
    ELSE FracDigits(Tail(s))

RECURSIVE BFromDigits(_, _)
BFromDigits(ds, acc) ==
    IF ds = << >> THEN acc
    ELSE LET next == BAdd(BMulSmall(acc, 10), BFromSmall(DigitVal(ds[1])))
         IN  CASE next = next -> BFromDigits(Tail(ds), next)

\* the exponent's digits; as readFloat, it stops adding at 10000
RECURSIVE ExpValue(_, _)
ExpValue(ds, acc) ==
    IF ds = << >> THEN acc
    ELSE ExpValue(Tail(ds), IF acc < 10000 THEN acc * 10 + DigitVal(ds[1]) ELSE acc)

\* a \div 10^k, four digits at a time, and whether a remainder was left
RECURSIVE BDivPow10(_, _, _)
BDivPow10(a, k, sticky) ==
    IF k = 0 THEN [q |-> a, sticky |-> sticky]
    ELSE LET step == Min2(k, 4)
             d == BDivSmall(a, 10 ^ step)
         IN  CASE d = d -> BDivPow10(d.q, k - step, sticky \/ d.r # 0)

\* the float64 nearest to (-1)^neg * d * 10^x
DecimalToFloat(neg, d, nd, x) == Apply("DecimalToFloat", <<neg, d, nd, x>>)

DecimalToFloatBody(neg, d, nd, x) ==
    IF d = << >> THEN FZero(neg)
    ELSE IF x > 310 THEN FInf(neg)
    ELSE IF x < 0 - (330 + nd) THEN FZero(neg)
    ELSE IF x >= 0 THEN FRound(neg, BMul(d, BPow10(x)), 0, FALSE)
    ELSE LET k == 0 - x
             sh == Max2(0, 56 + BBitLen(BPow10(k)) - BBitLen(d))
             qr == BDivPow10(BShl(d, sh), k, FALSE)
         IN  FRound(neg, qr.q, 0 - sh, qr.sticky)

\* strconv's readFloat for a decimal mantissa: [ok, neg, d, nd, x, n]
ReadFloat(s) == Apply("ReadFloat", <<s>>)

ReadFloatBody(s) ==
    LET signed == s # << >> /\ s[1] \in {"+", "-"}
        i0 == IF signed THEN 2 ELSE 1
        hex == HasPrefixAt(s, i0, <<"0", "x">>) \/ HasPrefixAt(s, i0, <<"0", "X">>)
        j == MantEnd(s, i0, FALSE)
        mant == SubSeq(s, i0, j - 1)
        ds == DigitsOf(mant)
        hasExp == j <= Len(s) /\ ToLower(s[j]) = "e"
        esigned == j + 1 <= Len(s) /\ s[j + 1] \in {"+", "-"}
        e0 == IF esigned THEN j + 2 ELSE j + 1
        e1 == MantEnd(s, e0, TRUE)
        ev == ExpValue(SubSeq(s, e0, e1 - 1), 0)
        fail == [ok |-> FALSE, neg |-> FALSE, d |-> << >>, nd |-> 0, x |-> 0, n |-> 0]
    IN  IF s = << >> \/ hex \/ ds = << >> THEN fail
        ELSE IF ~hasExp THEN
            [ok |-> TRUE, neg |-> s[1] = "-", d |-> BFromDigits(ds, << >>),
             nd |-> Len(ds), x |-> 0 - FracDigits(mant), n |-> j - 1]
        ELSE IF e1 = e0 THEN fail
        ELSE
            [ok |-> TRUE, neg |-> s[1] = "-", d |-> BFromDigits(ds, << >>),
             nd |-> Len(ds),
             x |-> (IF esigned /\ s[j + 1] = "-" THEN 0 - ev ELSE ev) - FracDigits(mant),
             n |-> e1 - 1]

ParseFloat(s) == Apply("ParseFloat", <<s>>)

ParseFloatBody(s) ==
    LET sp == Special(s)
        rf == ReadFloat(s)
        f == DecimalToFloat(rf.neg, rf.d, rf.nd, rf.x)
    IN  IF sp.ok THEN
            (IF sp.n = Len(s) THEN [v |-> sp.v, err |-> "nil"]
             ELSE [v |-> FZero(FALSE), err |-> "syntax"])
        ELSE IF ~rf.ok \/ rf.n # Len(s) THEN [v |-> FZero(FALSE), err |-> "syntax"]
        ELSE IF f.k = "inf" THEN [v |-> f, err |-> "range"]
        ELSE [v |-> f, err |-> "nil"]

(***************************************************************************)
(* parseComplexOctets (main.go).  Go may fuse x*y + z into one operation   *)
(* with a single rounding: the arm64 and riscv64 builds do, the default    *)
(* amd64 build does not.                                                   *)
(***************************************************************************)
\* x*y + z rounded once
FFma(x, y, z) == Apply("FFma", <<x, y, z>>)

FFmaBody(x, y, z) ==
    IF x.k # "fin" \/ y.k # "fin" \/ z.k # "fin" THEN FAdd(FMul(x, y), z)
    ELSE IF x.m = << >> \/ y.m = << >> THEN FAdd(FZero(x.neg # y.neg), z)
    ELSE IF z.m = << >> THEN FMul(x, y)
    ELSE LET pneg == x.neg # y.neg
             pe == x.e + y.e
             e == Min2(pe, z.e)
             p == BShl(BMul(x.m, y.m), pe - e)
             q == BShl(z.m, z.e - e)
             c == BCmp(p, q)
         IN  IF pneg = z.neg THEN FRound(pneg, BAdd(p, q), e, FALSE)
             ELSE IF c = 0 THEN FZero(FALSE)
             ELSE IF c > 0 THEN FRound(pneg, BSub(p, q), e, FALSE)
             ELSE FRound(z.neg, BSub(q, p), e, FALSE)

MulAdd(x, y, z, arch) ==
    IF arch = "amd64" THEN FAdd(FMul(x, y), z) ELSE FFma(x, y, z)

\* the constant 9.223372036854775e+18 as a float64
CloseToInt64Max == ParseFloat(<<"9", ".", "2", "2", "3", "3", "7", "2", "0", "3", "6", "8", "5", "4", "7", "7", "5", "e", "+", "1", "8">>).v

\* a version that uses the three numbers whether or not they parsed
parseComplexOctetsNoErrCheck(octetsStr, arch) ==
    LET simple == ParseInt(octetsStr)
        parts == Split(octetsStr, <<" ", "+", " ">>)
        highParts == Split(parts[1], <<" ", "*", " ">>)
        multiplier == ParseFloat(highParts[1])
        factor == ParseFloat(highParts[2])
        lowPart == ParseFloat(parts[2])
        result == MulAdd(multiplier.v, factor.v, lowPart.v, arch)
    IN  IF simple.err = "nil" THEN simple.v
        ELSE IF Len(parts) # 2 THEN I64Zero
        ELSE IF Len(highParts) # 2 THEN I64Zero
        ELSE IF FGt(result, CloseToInt64Max) THEN ToInt64(lowPart.v, arch)
        ELSE ToInt64(result, arch)

parseComplexOctetsNoSimple(octetsStr, arch) ==
    LET parts == Split(octetsStr, <<" ", "+", " ">>)
        highParts == Split(parts[1], <<" ", "*", " ">>)
        multiplier == ParseFloat(highParts[1])
        factor == ParseFloat(highParts[2])
        lowPart == ParseFloat(parts[2])
        result == MulAdd(multiplier.v, factor.v, lowPart.v, arch)
    IN  IF Len(parts) # 2 THEN I64Zero
        ELSE IF Len(highParts) # 2 THEN I64Zero
        ELSE IF multiplier.err # "nil" \/ factor.err # "nil" \/ lowPart.err # "nil"
             THEN I64Zero
        ELSE IF FGt(result, CloseToInt64Max) THEN ToInt64(lowPart.v, arch)
        ELSE ToInt64(result, arch)

\* a version without the overflow policy: the sum is converted whatever it is
parseComplexOctetsSumOnly(octetsStr, arch) ==
    LET simple == ParseInt(octetsStr)
        parts == Split(octetsStr, <<" ", "+", " ">>)
        highParts == Split(parts[1], <<" ", "*", " ">>)
        multiplier == ParseFloat(highParts[1])
        factor == ParseFloat(highParts[2])
        lowPart == ParseFloat(parts[2])
        result == MulAdd(multiplier.v, factor.v, lowPart.v, arch)
    IN  IF simple.err = "nil" THEN simple.v
        ELSE IF Len(parts) # 2 THEN I64Zero
        ELSE IF Len(highParts) # 2 THEN I64Zero
        ELSE IF multiplier.err # "nil" \/ factor.err # "nil" \/ lowPart.err # "nil"
             THEN I64Zero
        ELSE ToInt64(result, arch)

parseComplexOctets(octetsStr, arch) == Apply("parseComplexOctets", <<octetsStr, arch>>)

parseComplexOctetsBody(octetsStr, arch) ==
    LET simple == ParseInt(octetsStr)
        parts == Split(octetsStr, <<" ", "+", " ">>)
        highParts == Split(parts[1], <<" ", "*", " ">>)
        multiplier == ParseFloat(highParts[1])
        factor == ParseFloat(highParts[2])
        lowPart == ParseFloat(parts[2])
        result == MulAdd(multiplier.v, factor.v, lowPart.v, arch)
    IN  IF simple.err = "nil" THEN simple.v
        ELSE IF Len(parts) # 2 THEN I64Zero
        ELSE IF Len(highParts) # 2 THEN I64Zero
        ELSE IF multiplier.err # "nil" \/ factor.err # "nil" \/ lowPart.err # "nil"
             THEN I64Zero
        ELSE IF FGt(result, CloseToInt64Max) THEN ToInt64(lowPart.v, arch)
        ELSE ToInt64(result, arch)

(***************************************************************************)
(* ModemClient: get and the decoders.  A response is [sent, status, read,  *)
(* body]; a body is [ok, elems], ok when it is a JSON array of objects,    *)
(* an object a record of JSON values [t, s] (t "string" or "number").      *)
(***************************************************************************)
StatusOK == 200

\* get: the body, or an error
get(resp) ==
    IF ~resp.sent THEN [err |-> TRUE, body |-> [ok |-> FALSE, elems |-> << >>]]
    ELSE IF resp.status # StatusOK
         THEN [err |-> TRUE, body |-> [ok |-> FALSE, elems |-> << >>]]
    ELSE IF ~resp.read THEN [err |-> TRUE, body |-> [ok |-> FALSE, elems |-> << >>]]
    ELSE [err |-> FALSE, body |-> resp.body]

\* the json tags of the structs
DownstreamInfo ==
    [PortID |-> "portId", Frequency |-> "frequency", Modulation |-> "modulation",
     SignalStrength |-> "signalStrength", SNR |-> "snr", DSoctets |-> "dsoctets",
     Correcteds |-> "correcteds", Uncorrect |-> "uncorrect", ChannelID |-> "channelId"]

UpstreamInfo ==
    [PortID |-> "portId", Frequency |-> "frequency", Bandwidth |-> "bandwidth",
     ModType |-> "modtype", ScdmaMode |-> "scdmaMode",
     SignalStrength |-> "signalStrength", ChannelID |-> "channelId"]

SystemInfo ==
    [HWVersion |-> "hwVersion", SWVersion |-> "swVersion",
     SerialNumber |-> "serialNumber", RFMac |-> "rfMac", WanIP |-> "wanIp",
     SystemUptime |-> "systemUptime", SystemTime |-> "systemTime",
     Timezone |-> "timezone", WRecPkt |-> "WRecPkt", WSendPkt |-> "WSendPkt",
     LanIP |-> "lanIp", LRecPkt |-> "LRecPkt", LSendPkt |-> "LSendPkt"]

OFDMDownstreamInfo ==
    [Receive |-> "receive", FFTType |-> "ffttype",
     Subcarr0freqFreq |-> "Subcarr0freqFreq", PLCLock |-> "plclock",
     NCPLock |-> "ncplock", MDC1Lock |-> "mdc1lock", PLCPower |-> "plcpower",
     SNR |-> "SNR", DSoctets |-> "dsoctets", Correcteds |-> "correcteds",
     Uncorrect |-> "uncorrect"]

OFDMUpstreamInfo ==
    [USCHIndex |-> "uschindex", State |-> "state", Frequency |-> "frequency",
     DigAtten |-> "digAtten", DigAttenBo |-> "digAttenBo",
     ChannelBw |-> "channelBw", RepPower |-> "repPower",
     RepPower1_6 |-> "repPower1_6", FFTVal |-> "fftVal"]

LinkStatus ==
    [LinkStatus |-> "LinkStatus", LinkDuplex |-> "LinkDuplex",
     LinkSpeed |-> "LinkSpeed"]

\* json.Unmarshal(data, &slice) for a slice of structs with string fields:
\* a key the object lacks leaves the field empty, a value that is no string
\* is an error
Unmarshal(body, tags) ==
    IF ~body.ok THEN [err |-> TRUE, recs |-> << >>]
    ELSE IF \E i \in 1..Len(body.elems) : \E f \in DOMAIN tags :
                /\ tags[f] \in DOMAIN body.elems[i]
                /\ body.elems[i][tags[f]].t # "string"
         THEN [err |-> TRUE, recs |-> << >>]
    ELSE [err |-> FALSE,
          recs |-> [i \in 1..Len(body.elems) |->
                     [f \in DOMAIN tags |->
                        IF tags[f] \in DOMAIN body.elems[i]
                        THEN body.elems[i][tags[f]].s ELSE << >>]]]

\* a decoder that takes an array of zero records for an error, as
\* parseSystemInfo does
parseDownstreamInfoEmptyIsError(data) ==
    LET u == Unmarshal(data, DownstreamInfo)
    IN  IF ~u.err /\ Len(u.recs) = 0 THEN [err |-> TRUE, recs |-> << >>] ELSE u

parseDownstreamInfo(data) == Unmarshal(data, DownstreamInfo)

parseUpstreamInfo(data) == Unmarshal(data, UpstreamInfo)

parseOFDMDownstreamInfo(data) == Unmarshal(data, OFDMDownstreamInfo)

parseOFDMUpstreamInfo(data) == Unmarshal(data, OFDMUpstreamInfo)

\* a decoder that takes the first record of whatever was decoded
parseFirstOrZero(data, tags) ==
    LET u == Unmarshal(data, tags)
    IN  IF u.err THEN u
        ELSE IF Len(u.recs) = 0
             THEN [err |-> FALSE, recs |-> <<[f \in DOMAIN tags |-> << >>]>>]
        ELSE [err |-> FALSE, recs |-> <<u.recs[1]>>]

parseSystemInfoNoEmptyCheck(data) == parseFirstOrZero(data, SystemInfo)

parseSystemInfo(data) ==
    LET u == Unmarshal(data, SystemInfo)
    IN  IF u.err THEN u
        ELSE IF Len(u.recs) = 0 THEN [err |-> TRUE, recs |-> << >>]
        ELSE [err |-> FALSE, recs |-> <<u.recs[1]>>]

parseLinkStatus(data) ==
    LET u == Unmarshal(data, LinkStatus)
    IN  IF u.err THEN u
        ELSE IF Len(u.recs) = 0 THEN [err |-> TRUE, recs |-> << >>]
        ELSE [err |-> FALSE, recs |-> <<u.recs[1]>>]

Endpoints ==
    <<"dsinfo.asp", "usinfo.asp", "dsofdminfo.asp", "usofdminfo.asp",
      "getLinkStatus.asp", "getSysInfo.asp">>

EndpointSet == {Endpoints[i] : i \in 1..Len(Endpoints)}

GetDownstreamInfo(dev) ==
    LET g == get(dev["dsinfo.asp"])
    IN  IF g.err THEN [err |-> TRUE, recs |-> << >>] ELSE parseDownstreamInfo(g.body)

GetUpstreamInfo(dev) ==
    LET g == get(dev["usinfo.asp"])
    IN  IF g.err THEN [err |-> TRUE, recs |-> << >>] ELSE parseUpstreamInfo(g.body)

GetSystemInfo(dev) ==
    LET g == get(dev["getSysInfo.asp"])
    IN  IF g.err THEN [err |-> TRUE, recs |-> << >>] ELSE parseSystemInfo(g.body)

GetOFDMDownstreamInfo(dev) ==
    LET g == get(dev["dsofdminfo.asp"])
    IN  IF g.err THEN [err |-> TRUE, recs |-> << >>]
        ELSE parseOFDMDownstreamInfo(g.body)

GetOFDMUpstreamInfo(dev) ==
    LET g == get(dev["usofdminfo.asp"])
    IN  IF g.err THEN [err |-> TRUE, recs |-> << >>]
        ELSE parseOFDMUpstreamInfo(g.body)

GetLinkStatus(dev) ==
    LET g == get(dev["getLinkStatus.asp"])
    IN  IF g.err THEN [err |-> TRUE, recs |-> << >>] ELSE parseLinkStatus(g.body)

(***************************************************************************)
(* The metric vectors (prometheus client): a series comes to exist with    *)
(* the first WithLabelValues for its label values and stays; Set           *)
(* overwrites a gauge; Add adds to a counter and panics on a negative      *)
(* value; Collect sends every series of the vector.                        *)
(***************************************************************************)
GaugeNames ==
    {"downstreamPower", "downstreamSNR", "downstreamFreq", "downstreamOctets",
     "upstreamPower", "upstreamFreq", "upstreamSymbolRate",
     "ofdmDownstreamPower", "ofdmDownstreamSNR", "ofdmDownstreamFreq",
     "ofdmDownstreamOctets", "ofdmDownstreamLocks",
     "ofdmUpstreamPower", "ofdmUpstreamFreq", "ofdmUpstreamBandwidth",
     "ofdmUpstreamState", "linkStatus", "linkSpeed", "systemInfo"}

CounterNames ==
    {"downstreamCorrectables", "downstreamUncorrectables",
     "ofdmDownstreamCorrectables", "ofdmDownstreamUncorrectables"}

MetricNames == GaugeNames \cup CounterNames

NewMetricsCollector == [n \in MetricNames |-> << >>]

\* vec.WithLabelValues(lvs...).Set(v)
GaugeSet(vec, lvs, v) ==
    [l \in DOMAIN vec \cup {lvs} |-> IF l = lvs THEN v ELSE vec[l]]

\* vec.WithLabelValues(lvs...): the series, made with the count 0 when new
WithLabelValues(vec, lvs) ==
    [l \in DOMAIN vec \cup {lvs} |-> IF l \in DOMAIN vec THEN vec[l] ELSE << >>]

\* uint64(v) for a float64 v that is a whole number from 0 to 2^64 - 1
ToUint64(v) == IF v.m = << >> THEN << >> ELSE BShl(v.m, v.e)

\* the sum of two uint64, which wraps around
AddUint64(x, y) ==
    LET s == BAdd(x, y) IN IF BCmp(s, Two64) >= 0 THEN BSub(s, Two64) ELSE s

\* a counter that takes a negative value as any other
CounterAddUnchecked(vec, lvs, v) ==
    LET w == WithLabelValues(vec, lvs)
    IN  [vec |-> [w EXCEPT ![lvs] = IF FNegative(v) THEN @ ELSE AddUint64(@, ToUint64(v))],
         panic |-> FALSE]

\* a counter that is set to the value instead
CounterAddOverwrites(vec, lvs, v) ==
    LET w == WithLabelValues(vec, lvs)
    IN  IF FNegative(v) THEN [vec |-> w, panic |-> TRUE]
        ELSE [vec |-> [w EXCEPT ![lvs] = ToUint64(v)], panic |-> FALSE]

\* vec.WithLabelValues(lvs...).Add(v), for the whole numbers Collect adds
CounterAdd(vec, lvs, v) ==
    LET w == WithLabelValues(vec, lvs)
    IN  IF FNegative(v) THEN [vec |-> w, panic |-> TRUE]
        ELSE [vec |-> [w EXCEPT ![lvs] = AddUint64(@, ToUint64(v))], panic |-> FALSE]

\* the value a series is sent with
SeriesValue(name, x) ==
    IF name \in CounterNames THEN FRound(FALSE, x, 0, FALSE) ELSE x

\* what the 23 vec.Collect(ch) calls send
Emit(col) ==
    UNION {{[name |-> n, labels |-> l, value |-> SeriesValue(n, col[n][l])] :
              l \in DOMAIN col[n]} : n \in MetricNames}

(***************************************************************************)
(* MetricsCollector.Collect.  A run of it is r = [c, panicked, errs,       *)
(* gets]: the collector, whether a panic has ended the run, the endpoints  *)
(* whose Get returned an error, and the requests sent, in order.           *)
(***************************************************************************)
StartRun(col) == [c |-> col, panicked |-> FALSE, errs |-> {}, gets |-> << >>]

Requested(r, endpoint) == [r EXCEPT !.gets = Append(@, endpoint)]

\* an error branch that starts the metric vectors afresh
FailedResets(r, endpoint) ==
    [r EXCEPT !.errs = @ \cup {endpoint}, !.c = NewMetricsCollector]

\* an error branch that ends the process (log.Fatalf for log.Printf)
FailedFatal(r, endpoint) == [r EXCEPT !.errs = @ \cup {endpoint}, !.panicked = TRUE]

\* the error branch of a section: log.Printf, and on to the next section
Failed(r, endpoint) == [r EXCEPT !.errs = @ \cup {endpoint}]

\* the body of the loop over dsInfo
DownstreamChannel(r, channel, a) == Apply("DownstreamChannel", <<r, channel, a>>)

DownstreamChannelBody(r, channel, a) ==
    LET frequency == ParseFloat(channel.Frequency).v
        powerLevel == ParseFloat(channel.SignalStrength).v
        snr == ParseFloat(channel.SNR).v
        corrected == ParseInt(channel.Correcteds).v
        uncorrect == ParseInt(channel.Uncorrect).v
        octets == parseComplexOctets(channel.DSoctets, a)
        labels == <<channel.ChannelID, channel.Frequency, channel.Modulation>>
        c1 == [r.c EXCEPT
                 !.downstreamPower = GaugeSet(@, labels, powerLevel),
                 !.downstreamSNR = GaugeSet(@, labels, snr),
                 !.downstreamFreq =
                     GaugeSet(@, <<channel.ChannelID, channel.Modulation>>, frequency)]
        cor == CounterAdd(c1.downstreamCorrectables, labels, FFromInt(corrected))
        c2 == [c1 EXCEPT !.downstreamCorrectables = cor.vec]
        unc == CounterAdd(c2.downstreamUncorrectables, labels, FFromInt(uncorrect))
        c3 == [c2 EXCEPT !.downstreamUncorrectables = unc.vec]
    IN  IF cor.panic THEN [r EXCEPT !.c = c2, !.panicked = TRUE]
        ELSE IF unc.panic THEN [r EXCEPT !.c = c3, !.panicked = TRUE]
        ELSE [r EXCEPT !.c =
                 [c3 EXCEPT !.downstreamOctets = GaugeSet(@, labels, FFromInt(octets))]]

\* the body of the loop over usInfo
UpstreamChannel(r, channel, a) == Apply("UpstreamChannel", <<r, channel, a>>)

UpstreamChannelBody(r, channel, a) ==
    LET frequency == ParseFloat(channel.Frequency).v
        powerLevel == ParseFloat(channel.SignalStrength).v
        bandwidth == ParseFloat(channel.Bandwidth).v
        labels == <<channel.ChannelID, channel.Frequency, channel.ModType>>
    IN  [r EXCEPT !.c =
           [r.c EXCEPT
              !.upstreamPower = GaugeSet(@, labels, powerLevel),
              !.upstreamFreq =
                  GaugeSet(@, <<channel.ChannelID, channel.ModType>>, frequency),
              !.upstreamSymbolRate = GaugeSet(@, labels, bandwidth)]]

FOne == FFromInt(I64(FALSE, <<1>>))

\* 1.0 when the token is the expected one, else 0.0
Flag(b) == IF b THEN FOne ELSE FZero(FALSE)

\* the body of the loop over ofdmDsInfo
OFDMDownstreamChannel(r, channel, a) == Apply("OFDMDownstreamChannel", <<r, channel, a>>)

OFDMDownstreamChannelBody(r, channel, a) ==
    LET frequency == ParseFloat(TrimSpace(channel.Subcarr0freqFreq)).v
        powerLevel == ParseFloat(channel.PLCPower).v
        snr == ParseFloat(channel.SNR).v
        corrected == ParseInt(channel.Correcteds).v
        uncorrect == ParseInt(channel.Uncorrect).v
        octets == ParseInt(channel.DSoctets).v
        labels == <<channel.Receive, TrimSpace(channel.Subcarr0freqFreq), channel.FFTType>>
        lockLabels == <<channel.Receive, TrimSpace(channel.Subcarr0freqFreq)>>
        plcLock == Flag(TrimSpace(channel.PLCLock) = <<"Y", "E", "S">>)
        ncpLock == Flag(TrimSpace(channel.NCPLock) = <<"Y", "E", "S">>)
        mdc1Lock == Flag(TrimSpace(channel.MDC1Lock) = <<"Y", "E", "S">>)
        c1 == [r.c EXCEPT
                 !.ofdmDownstreamPower = GaugeSet(@, labels, powerLevel),
                 !.ofdmDownstreamSNR = GaugeSet(@, labels, snr),
                 !.ofdmDownstreamFreq =
                     GaugeSet(@, <<channel.Receive, channel.FFTType>>, frequency)]
        cor == CounterAdd(c1.ofdmDownstreamCorrectables, labels, FFromInt(corrected))
        c2 == [c1 EXCEPT !.ofdmDownstreamCorrectables = cor.vec]
        unc == CounterAdd(c2.ofdmDownstreamUncorrectables, labels, FFromInt(uncorrect))
        c3 == [c2 EXCEPT !.ofdmDownstreamUncorrectables = unc.vec]
    IN  IF cor.panic THEN [r EXCEPT !.c = c2, !.panicked = TRUE]
        ELSE IF unc.panic THEN [r EXCEPT !.c = c3, !.panicked = TRUE]
        ELSE [r EXCEPT !.c =
                 [c3 EXCEPT
                    !.ofdmDownstreamOctets = GaugeSet(@, labels, FFromInt(octets)),
                    !.ofdmDownstreamLocks =
                        GaugeSet(GaugeSet(GaugeSet(@,
                            Append(lockLabels, <<"p", "l", "c">>), plcLock),
                            Append(lockLabels, <<"n", "c", "p">>), ncpLock),
                            Append(lockLabels, <<"m", "d", "c", "1">>), mdc1Lock)]]

\* an active-channel test that lets the frequency 0 through (>= for >)
ActiveChannelFrom0(frequency) == ~FGt(FZero(FALSE), frequency)

\* the active-channel test of the OFDM upstream loop
ActiveChannel(frequency) == FGt(frequency, FZero(FALSE))

\* the body of the loop over ofdmUsInfo
OFDMUpstreamChannel(r, channel, a) == Apply("OFDMUpstreamChannel", <<r, channel, a>>)

OFDMUpstreamChannelBody(r, channel, a) ==
    LET frequency == ParseFloat(channel.Frequency).v
        repPower == ParseFloat(TrimSpace(channel.RepPower)).v
        bandwidth == ParseFloat(TrimSpace(channel.ChannelBw)).v
        state == TrimSpace(channel.State)
        stateValue == Flag(state = <<"O", "P", "E", "R", "A", "T", "E">>)
        labels == <<channel.USCHIndex, channel.Frequency, state>>
        c1 == IF ActiveChannel(frequency)
              THEN [r.c EXCEPT
                      !.ofdmUpstreamPower = GaugeSet(@, labels, repPower),
                      !.ofdmUpstreamFreq =
                          GaugeSet(@, <<channel.USCHIndex, state>>, frequency),
                      !.ofdmUpstreamBandwidth = GaugeSet(@, labels, bandwidth)]
              ELSE r.c
    IN  [r EXCEPT !.c =
           [c1 EXCEPT !.ofdmUpstreamState =
               GaugeSet(@, <<channel.USCHIndex, channel.Frequency>>, stateValue)]]

\* the else branch of "Collect link status"
LinkInfo(r, linkInfo, a) ==
    LET status == Flag(linkInfo.LinkStatus = <<"U", "p">>)
        speedStr == TrimSuffix(linkInfo.LinkSpeed, <<"M", "b", "p", "s">>)
        speed == ParseFloat(speedStr).v
        duplex == linkInfo.LinkDuplex
    IN  [r EXCEPT !.c =
           [r.c EXCEPT !.linkStatus = GaugeSet(@, <<duplex>>, status),
                       !.linkSpeed = GaugeSet(@, <<duplex>>, speed)]]

\* the else branch of "Collect system info"
SysInfo(r, sysInfo, a) ==
    [r EXCEPT !.c =
       [r.c EXCEPT !.systemInfo =
           GaugeSet(@, <<sysInfo.HWVersion, sysInfo.SWVersion, sysInfo.SerialNumber>>,
                    FOne)]]

\* for _, channel := range recs { body }: a panic ends it
RangeBody(endpoint, r, channel, a) ==
    CASE endpoint = "dsinfo.asp" -> DownstreamChannel(r, channel, a)
      [] endpoint = "usinfo.asp" -> UpstreamChannel(r, channel, a)
      [] endpoint = "dsofdminfo.asp" -> OFDMDownstreamChannel(r, channel, a)
      [] endpoint = "usofdminfo.asp" -> OFDMUpstreamChannel(r, channel, a)

RECURSIVE Range(_, _, _, _, _)
Range(endpoint, r, recs, i, a) ==
    IF i > Len(recs) \/ r.panicked THEN r
    ELSE LET next == RangeBody(endpoint, r, recs[i], a)
         IN  CASE next = next -> Range(endpoint, next, recs, i + 1, a)

\* the six sections of Collect, each from its Get to the end of its else
CollectDownstream(r, dev, a) ==
    LET res == GetDownstreamInfo(dev)
        r1 == Requested(r, "dsinfo.asp")
    IN  IF r.panicked THEN r
        ELSE IF res.err THEN Failed(r1, "dsinfo.asp")
        ELSE Range("dsinfo.asp", r1, res.recs, 1, a)

CollectUpstream(r, dev, a) ==
    LET res == GetUpstreamInfo(dev)
        r1 == Requested(r, "usinfo.asp")
    IN  IF r.panicked THEN r
        ELSE IF res.err THEN Failed(r1, "usinfo.asp")
        ELSE Range("usinfo.asp", r1, res.recs, 1, a)

CollectOFDMDownstream(r, dev, a) ==
    LET res == GetOFDMDownstreamInfo(dev)
        r1 == Requested(r, "dsofdminfo.asp")
    IN  IF r.panicked THEN r
        ELSE IF res.err THEN Failed(r1, "dsofdminfo.asp")
        ELSE Range("dsofdminfo.asp", r1, res.recs, 1, a)

CollectOFDMUpstream(r, dev, a) ==
    LET res == GetOFDMUpstreamInfo(dev)
        r1 == Requested(r, "usofdminfo.asp")
    IN  IF r.panicked THEN r
        ELSE IF res.err THEN Failed(r1, "usofdminfo.asp")
        ELSE Range("usofdminfo.asp", r1, res.recs, 1, a)

CollectLinkStatus(r, dev, a) ==
    LET res == GetLinkStatus(dev)
        r1 == Requested(r, "getLinkStatus.asp")
    IN  IF r.panicked THEN r
        ELSE IF res.err THEN Failed(r1, "getLinkStatus.asp")
        ELSE LinkInfo(r1, res.recs[1], a)

CollectSystemInfo(r, dev, a) ==
    LET res == GetSystemInfo(dev)
        r1 == Requested(r, "getSysInfo.asp")
    IN  IF r.panicked THEN r
        ELSE IF res.err THEN Failed(r1, "getSysInfo.asp")
        ELSE SysInfo(r1, res.recs[1], a)

\* Collect up to "Collect all metrics"
CollectRun(col, dev, a) == Apply("CollectRun", <<col, dev, a>>)

CollectRunBody(col, dev, a) ==
    LET r1 == CollectDownstream(StartRun(col), dev, a)
        r2 == CollectUpstream(r1, dev, a)
        r3 == CollectOFDMDownstream(r2, dev, a)
        r4 == CollectOFDMUpstream(r3, dev, a)
        r5 == CollectLinkStatus(r4, dev, a)
    IN  CollectSystemInfo(r5, dev, a)

\* the sections with the two QAM ones the other way round
CollectSectionSwapped(k, r, dev, a) ==
    CASE k = 1 -> CollectUpstream(r, dev, a)
      [] k = 2 -> CollectDownstream(r, dev, a)
      [] k = 3 -> CollectOFDMDownstream(r, dev, a)
      [] k = 4 -> CollectOFDMUpstream(r, dev, a)
      [] k = 5 -> CollectLinkStatus(r, dev, a)
      [] k = 6 -> CollectSystemInfo(r, dev, a)

\* the k-th of the six sections of Collect
CollectSection(k, r, dev, a) == Apply("CollectSection", <<k, r, dev, a>>)

CollectSectionBody(k, r, dev, a) ==
    CASE k = 1 -> CollectDownstream(r, dev, a)
      [] k = 2 -> CollectUpstream(r, dev, a)
      [] k = 3 -> CollectOFDMDownstream(r, dev, a)
      [] k = 4 -> CollectOFDMUpstream(r, dev, a)
      [] k = 5 -> CollectLinkStatus(r, dev, a)
      [] k = 6 -> CollectSystemInfo(r, dev, a)

Apply(op, x) ==
    CASE op = "FRound" -> FRoundBody(x[1], x[2], x[3], x[4])
      [] op = "FMul" -> FMulBody(x[1], x[2])
      [] op = "FAdd" -> FAddBody(x[1], x[2])
      [] op = "FFma" -> FFmaBody(x[1], x[2], x[3])
      [] op = "FGt" -> FGtBody(x[1], x[2])
      [] op = "ParseInt" -> ParseIntBody(x[1])
      [] op = "ReadFloat" -> ReadFloatBody(x[1])
      [] op = "DecimalToFloat" -> DecimalToFloatBody(x[1], x[2], x[3], x[4])
      [] op = "ParseFloat" -> ParseFloatBody(x[1])
      [] op = "BMul" -> BMulBody(x[1], x[2])
      [] op = "parseComplexOctets" -> parseComplexOctetsBody(x[1], x[2])
      [] op = "DownstreamChannel" -> DownstreamChannelBody(x[1], x[2], x[3])
      [] op = "UpstreamChannel" -> UpstreamChannelBody(x[1], x[2], x[3])
      [] op = "OFDMDownstreamChannel" -> OFDMDownstreamChannelBody(x[1], x[2], x[3])
      [] op = "OFDMUpstreamChannel" -> OFDMUpstreamChannelBody(x[1], x[2], x[3])
      [] op = "CollectRun" -> CollectRunBody(x[1], x[2], x[3])
      [] op = "CollectSection" -> CollectSectionBody(x[1], x[2], x[3], x[4])

(***************************************************************************)
(* The modem's answers.  Each endpoint has a healthy answer, the first of  *)
(* its list, and the other answers the exporter may meet.                  *)
(***************************************************************************)
JS(s) == [t |-> "string", s |-> s]

JN(s) == [t |-> "number", s |-> s]

OK(elems) ==
    [sent |-> TRUE, status |-> StatusOK, read |-> TRUE,
     body |-> [ok |-> TRUE, elems |-> elems]]

\* a body that is no JSON
NotJSON ==
    [sent |-> TRUE, status |-> StatusOK, read |-> TRUE,
     body |-> [ok |-> FALSE, elems |-> << >>]]

\* the request times out or the connection is refused
SendError ==
    [sent |-> FALSE, status |-> 0, read |-> FALSE,
     body |-> [ok |-> FALSE, elems |-> << >>]]

\* the modem answers 500
StatusError ==
    [sent |-> TRUE, status |-> 500, read |-> TRUE,
     body |-> [ok |-> FALSE, elems |-> << >>]]

\* the connection breaks while the body is read
ReadError ==
    [sent |-> TRUE, status |-> StatusOK, read |-> FALSE,
     body |-> [ok |-> FALSE, elems |-> << >>]]

TransportErrors == {SendError, StatusError, ReadError}

DsObj(ch, freq, mod, pow, snr, oct, cor, unc) ==
    [portId |-> JS(ch), channelId |-> JS(ch), frequency |-> JS(freq),
     modulation |-> JS(mod), signalStrength |-> JS(pow), snr |-> JS(snr),
     dsoctets |-> JS(oct), correcteds |-> cor, uncorrect |-> unc]

DsA == DsObj(<<"1">>, <<"5", "9", "1", "0", "0", "0", "0", "0", "0">>, <<"2">>, <<"6", ".", "4", "0", "0">>, <<"4", "0", ".", "9", "4", "6">>,
             <<"5", "3", " ", "*", " ", "2", "e", "3", "2", " ", "+", " ", "4", "1", "4", "2", "9", "5", "0", "8", "4", "5">>, JS(<<"1", "2">>), JS(<<"3">>))

\* the same channel after the modem has reset its counts
DsAReset == DsObj(<<"1">>, <<"5", "9", "1", "0", "0", "0", "0", "0", "0">>, <<"2">>, <<"6", ".", "4", "0", "0">>, <<"4", "0", ".", "9", "4", "6">>,
                  <<"1", " ", "*", " ", "2", "e", "3", "2", " ", "+", " ", "1", "7">>, JS(<<"5">>), JS(<<"0">>))

DsB == DsObj(<<"2">>, <<"5", "9", "7", "0", "0", "0", "0", "0", "0">>, <<"2">>, <<"-", "1", ".", "5">>, <<"3", "8">>, <<"1", "0", "0">>, JS(<<"0">>), JS(<<"7">>))

DsNegative == DsObj(<<"1">>, <<"5", "9", "1", "0", "0", "0", "0", "0", "0">>, <<"2">>, <<"6", ".", "4", "0", "0">>, <<"4", "0", ".", "9", "4", "6">>,
                    <<"1", "0", "0">>, JS(<<"-", "1">>), JS(<<"3">>))

DsGarbled == DsObj(<<"1">>, <<"5", "9", "1", "0", "0", "0", "0", "0", "0">>, <<"2">>, <<"n", "/", "a">>, << >>, <<"n", "o", "t", " ", "a", " ", "n", "u", "m", "b", "e", "r">>,
                   JS(<<"x">>), JS(<<"1", "e", "3">>))

DsNumber == DsObj(<<"1">>, <<"5", "9", "1", "0", "0", "0", "0", "0", "0">>, <<"2">>, <<"6", ".", "4", "0", "0">>, <<"4", "0", ".", "9", "4", "6">>,
                  <<"1", "0", "0">>, JN(<<"1", "2">>), JS(<<"3">>))

\* a power level beyond the float64 range: ParseFloat gives +Inf and an error
DsOutOfRange == DsObj(<<"1">>, <<"5", "9", "1", "0", "0", "0", "0", "0", "0">>, <<"2">>, <<"1", "e", "9", "9", "9">>, <<"4", "0", ".", "9", "4", "6">>,
                      <<"1", "0", "0">>, JS(<<"1", "2">>), JS(<<"3">>))

\* channel 1 once more, on another frequency
DsSameChannel == DsObj(<<"1">>, <<"5", "9", "7", "0", "0", "0", "0", "0", "0">>, <<"2">>, <<"5", ".", "1", "0", "0">>, <<"3", "9", ".", "5">>, <<"2", "0", "0">>, JS(<<"1">>), JS(<<"0">>))

DsAnswers ==
    <<OK(<<DsA>>), OK(<<DsAReset>>), OK(<<DsA, DsB>>), OK(<< >>), OK(<<DsNegative>>),
      OK(<<DsGarbled>>), OK(<<DsNumber>>), NotJSON, SendError, StatusError, ReadError,
      OK(<<DsOutOfRange>>), OK(<<DsA, DsSameChannel>>)>>

UsObj(ch, freq, bw, mod, pow) ==
    [portId |-> JS(ch), channelId |-> JS(ch), frequency |-> JS(freq),
     bandwidth |-> JS(bw), modtype |-> JS(mod), scdmaMode |-> JS(<<"A", "T", "D", "M", "A">>),
     signalStrength |-> JS(pow)]

UsA == UsObj(<<"1">>, <<"3", "6", "5", "0", "0", "0", "0", "0">>, <<"6", "4", "0", "0", "0", "0", "0">>, <<"2">>, <<"4", "1", ".", "5">>)

UsB == UsObj(<<"2">>, <<"3", "0", "1", "0", "0", "0", "0", "0">>, <<"6", "4", "0", "0", "0", "0", "0">>, <<"2">>, <<"4", "0">>)

UsAnswers ==
    <<OK(<<UsA>>), OK(<<UsA, UsB>>), OK(<< >>), NotJSON, SendError, StatusError,
      ReadError>>

OfdmDsObj(rcv, fft, freq, plc, ncp, mdc1, pow, snr, oct, cor, unc) ==
    [receive |-> JS(rcv), ffttype |-> JS(fft), Subcarr0freqFreq |-> JS(freq),
     plclock |-> JS(plc), ncplock |-> JS(ncp), mdc1lock |-> JS(mdc1),
     plcpower |-> JS(pow), SNR |-> JS(snr), dsoctets |-> JS(oct),
     correcteds |-> JS(cor), uncorrect |-> JS(unc)]

OfdmDsA == OfdmDsObj(<<"0">>, <<"4", "K">>, <<" ", "2", "7", "5", "6", "0", "0", "0", "0", "0">>, <<"Y", "E", "S">>, <<"Y", "E", "S">>, <<"Y", "E", "S">>,
                     <<"6", ".", "3">>, <<"4", "1">>, <<"5", "3", "1", "9", "6", "8", "1", "3", "8", "5", "6">>, <<"1", "0", "0">>, <<"0">>)

OfdmDsAReset == OfdmDsObj(<<"0">>, <<"4", "K">>, <<" ", "2", "7", "5", "6", "0", "0", "0", "0", "0">>, <<"Y", "E", "S">>, <<"Y", "E", "S">>, <<"Y", "E", "S">>,
                          <<"6", ".", "3">>, <<"4", "1">>, <<"9">>, <<"7">>, <<"0">>)

OfdmDsUnlocked == OfdmDsObj(<<"1">>, <<"4", "K">>, <<"3", "5", "0", "0", "0", "0", "0", "0", "0">>, <<"N", "O">>, <<" ", "Y", "E", "S", " ">>, <<" ", "y", "e", "s">>,
                            <<"5">>, <<"3", "9">>, <<"1">>, <<"0">>, <<"2">>)

OfdmDsNegative == OfdmDsObj(<<"0">>, <<"4", "K">>, <<" ", "2", "7", "5", "6", "0", "0", "0", "0", "0">>, <<"Y", "E", "S">>, <<"Y", "E", "S">>, <<"Y", "E", "S">>,
                            <<"6", ".", "3">>, <<"4", "1">>, <<"5", "3", "1", "9", "6", "8", "1", "3", "8", "5", "6">>, <<"1", "0", "0">>, <<"-", "4">>)

OfdmDsAnswers ==
    <<OK(<<OfdmDsA>>), OK(<<OfdmDsAReset>>), OK(<<OfdmDsA, OfdmDsUnlocked>>),
      OK(<< >>), OK(<<OfdmDsNegative>>), NotJSON, SendError, StatusError, ReadError>>

OfdmUsObj(idx, state, freq, bw, pow) ==
    [uschindex |-> JS(idx), state |-> JS(state), frequency |-> JS(freq),
     digAtten |-> JS(<<"0">>), digAttenBo |-> JS(<<"0">>), channelBw |-> JS(bw),
     repPower |-> JS(pow), repPower1_6 |-> JS(<<"0">>), fftVal |-> JS(<<"2", "K">>)]

OfdmUsActive == OfdmUsObj(<<"0">>, <<" ", " ", "O", "P", "E", "R", "A", "T", "E">>, <<"1", "9", "2", "0", "0", "0", "0", "0", "0">>, <<" ", "4", "4", ".", "0">>, <<" ", "4", "0", ".", "5">>)

OfdmUsIdle == OfdmUsObj(<<"1">>, <<"D", "I", "S", "A", "B", "L", "E", "D">>, <<"0">>, <<"0">>, <<"0">>)

OfdmUsGarbled == OfdmUsObj(<<"0">>, <<"O", "P", "E", "R", "A", "T", "E">>, <<"n", "/", "a">>, <<"4", "4", ".", "0">>, <<"4", "0", ".", "5">>)

OfdmUsBelowZero == OfdmUsObj(<<"1">>, <<"o", "p", "e", "r", "a", "t", "e">>, <<"-", "5">>, <<"4", "4", ".", "0">>, <<"4", "0", ".", "5">>)

OfdmUsAnswers ==
    <<OK(<<OfdmUsActive, OfdmUsIdle>>), OK(<<OfdmUsGarbled, OfdmUsBelowZero>>),
      OK(<<OfdmUsIdle>>), OK(<< >>), NotJSON, SendError, StatusError, ReadError>>

LinkObj(status, duplex, speed) ==
    [LinkStatus |-> JS(status), LinkDuplex |-> JS(duplex), LinkSpeed |-> JS(speed)]

LinkAnswers ==
    <<OK(<<LinkObj(<<"U", "p">>, <<"F", "u", "l", "l">>, <<"2", "5", "0", "0", "M", "b", "p", "s">>)>>),
      OK(<<LinkObj(<<"D", "o", "w", "n">>, <<"H", "a", "l", "f">>, <<"1", "0", "0", "0", "M", "b", "p", "s">>)>>),
      OK(<<LinkObj(<<" ", "U", "p", " ">>, <<"F", "u", "l", "l">>, <<"f", "a", "s", "t">>)>>),
      OK(<< >>), NotJSON, SendError, StatusError, ReadError>>

SysObj(hw, sw, serial) ==
    [hwVersion |-> JS(hw), swVersion |-> JS(sw), serialNumber |-> JS(serial),
     rfMac |-> JS(<<"0", "0", ":", "1", "1">>), systemUptime |-> JS(<<"1", "h">>)]

SysAnswers ==
    <<OK(<<SysObj(<<"1", "A">>, <<"7", ".", "3", ".", "5">>, <<"A", "B", "C", "1", "2", "3">>)>>),
      OK(<<SysObj(<<"1", "A">>, <<"7", ".", "3", ".", "6">>, <<"A", "B", "C", "1", "2", "3">>)>>),
      OK(<< >>), NotJSON, SendError, StatusError, ReadError>>

Answers ==
    [e \in EndpointSet |->
        CASE e = "dsinfo.asp" -> DsAnswers
          [] e = "usinfo.asp" -> UsAnswers
          [] e = "dsofdminfo.asp" -> OfdmDsAnswers
          [] e = "usofdminfo.asp" -> OfdmUsAnswers
          [] e = "getLinkStatus.asp" -> LinkAnswers
          [] e = "getSysInfo.asp" -> SysAnswers]

Healthy == [e \in EndpointSet |-> Answers[e][1]]

(***************************************************************************)
(* The state machine: the modem's answers change, and the exporter is      *)
(* scraped.                                                                *)
(***************************************************************************)
MaxScrapes == 2

MaxChanges == 2

NoResult == [neg |-> FALSE, mag |-> <<0>>]

Init ==
    /\ goarch \in Archs
    /\ device = Healthy
    /\ collector = NewMetricsCollector
    /\ running = TRUE
    /\ log = << >>
    /\ changes = 0
    /\ arg = << >>
    /\ ret = NoResult
    /\ calls = << >>

\* the modem starts to answer one endpoint differently
DeviceChange ==
    /\ running
    /\ changes < MaxChanges
    /\ \E e \in EndpointSet : \E i \in 1..Len(Answers[e]) :
          /\ Answers[e][i] # device[e]
          /\ device' = [device EXCEPT ![e] = Answers[e][i]]
    /\ changes' = changes + 1
    /\ UNCHANGED <<goarch, collector, running, log, arg, ret, calls>>

\* one scrape: Collect runs to its end, or to a panic, which ends the
\* process (the registry runs Collect in a goroutine of its own)
Collect ==
    /\ running
    /\ Len(log) < MaxScrapes
    /\ \E r \in {CollectRun(collector, device, goarch)} :
           /\ collector' = r.c
           /\ running' = ~r.panicked
           /\ log' = Append(log,
                  [device |-> device, errs |-> r.errs, gets |-> r.gets,
                   returned |-> ~r.panicked,
                   snapshot |-> IF r.panicked THEN {} ELSE Emit(r.c)])
    /\ UNCHANGED <<goarch, device, changes, arg, ret, calls>>

Next == DeviceChange \/ Collect

Spec == Init /\ [][Next]_vars

(***************************************************************************)
(* parseComplexOctets on its own: the dsoctets strings it may be given.    *)
(***************************************************************************)
Multipliers == {<<"5", "3">>, <<"1">>, <<"0">>, <<"3">>, <<"-", "3">>, <<"i", "n", "f">>}

Factors == {<<"2", "e", "3", "2">>, <<"3", "0", "0", "2", "3", "9", "9", "7", "5", "1", "5", "8", "0", "3", "3", "1">>, <<"1">>, <<"0">>, <<"-", "1", "e", "1", "9">>}

LowParts ==
    {<<"4", "1", "4", "2", "9", "5", "0", "8", "4", "5">>, <<"0">>, <<"1">>, <<"-", "7", ".", "9">>, <<"1", "e", "1", "9">>, <<"9", "2", "2", "3", "3", "7", "2", "0", "3", "6", "8", "5", "4", "7", "7", "5", "8", "0", "7">>, <<"n", "a", "n">>}

ComplexOctets ==
    {m \o <<" ", "*", " ">> \o f \o <<" ", "+", " ">> \o l : m \in Multipliers, f \in Factors, l \in LowParts}

PlainOctets ==
    {<<"0">>, <<"1", "0", "0">>, <<"-", "5">>, <<"+", "7">>, <<"0", "0", "7">>, <<"5", "3", "1", "9", "6", "8", "1", "3", "8", "5", "6">>, <<"9", "2", "2", "3", "3", "7", "2", "0", "3", "6", "8", "5", "4", "7", "7", "5", "8", "0", "7">>,
     <<"-", "9", "2", "2", "3", "3", "7", "2", "0", "3", "6", "8", "5", "4", "7", "7", "5", "8", "0", "8">>, <<"9", "2", "2", "3", "3", "7", "2", "0", "3", "6", "8", "5", "4", "7", "7", "5", "8", "0", "8">>, <<"-", "9", "2", "2", "3", "3", "7", "2", "0", "3", "6", "8", "5", "4", "7", "7", "5", "8", "0", "9">>,
     <<"9", "9", "9", "9", "9", "9", "9", "9", "9", "9", "9", "9", "9", "9", "9", "9", "9", "9", "9", "9", "9", "9", "9">>}

OtherOctets ==
    {<< >>, <<"-">>, <<"1", "2", "a">>, <<"1", ".", "5">>, <<" ", "1", "0", "0">>, <<"5", "3", " ", "*", " ", "2", "e", "3", "2">>, <<"1", " ", "+", " ", "2">>, <<"2", " ", "*", " ", "3", " ", "*", " ", "4", " ", "+", " ", "5">>,
     <<"2", " ", "*", " ", "3", " ", "+", " ", "4", " ", "+", " ", "5">>, <<"5", "3", "*", "2", "e", "3", "2", "+", "1">>, <<"a", " ", "*", " ", "2", " ", "+", " ", "1">>, <<"2", " ", "*", " ", "b", " ", "+", " ", "1">>, <<"2", " ", "*", " ", "3", " ", "+", " ", "c">>,
     <<"5", "3", " ", " ", "*", " ", " ", "2", "e", "3", "2", " ", " ", "+", " ", " ", "1">>,
     <<"n", "o", "t", " ", "a", " ", "n", "u", "m", "b", "e", "r">>, <<"2", " ", "*", " ", "1", "e", "9", "9", "9", " ", "+", " ", "1">>, <<"0", "x", "1", "0", " ", "*", " ", "2", " ", "+", " ", "1">>, <<"2", " ", "*", " ", "3", " ", "+", " ">>}

OctetsInputs == ComplexOctets \cup PlainOctets \cup OtherOctets

InitOctets ==
    /\ goarch \in Archs
    /\ device = Healthy
    /\ collector = NewMetricsCollector
    /\ running = TRUE
    /\ log = << >>
    /\ changes = 0
    /\ arg \in OctetsInputs
    /\ ret = NoResult
    /\ calls = << >>

\* one call of parseComplexOctets
ParseOctets ==
    /\ ret = NoResult
    /\ ret' = parseComplexOctets(arg, goarch)
    /\ UNCHANGED <<goarch, device, collector, running, log, changes, arg, calls>>

NextOctets == ParseOctets

SpecOctets == InitOctets /\ [][NextOctets]_vars

(***************************************************************************)
(* Scrapes at the same time.  promhttp serves each request in a goroutine  *)
(* of its own and the registry calls Collect of the one registered         *)
(* collector for each, so two invocations may be under way on the same     *)
(* metric vectors.  A vector's operations are atomic; the steps here are a *)
(* section of Collect and the sending of the series, which is coarser than *)
(* the program's interleaving and so shows some of its behaviours, not     *)
(* all.  The log entry of an invocation has the answers it fetched and     *)
(* the collector as it was when the invocation began.                      *)
(***************************************************************************)
MaxConcurrent == 2

NotCalled == [done |-> 0, start |-> NewMetricsCollector, fetched |-> Healthy,
              errs |-> {}, gets |-> << >>]

InitConcurrent ==
    /\ goarch \in Archs
    /\ device = Healthy
    /\ collector = NewMetricsCollector
    /\ running = TRUE
    /\ log = << >>
    /\ changes = 0
    /\ arg = << >>
    /\ ret = NoResult
    /\ calls = [p \in 1..MaxConcurrent |-> NotCalled]

\* invocation p does its next section on the collector as it is now
SectionStep(p) ==
    /\ running
    /\ calls[p].done < Len(Endpoints)
    /\ \E r \in {CollectSection(calls[p].done + 1,
                                 [c |-> collector, panicked |-> FALSE,
                                  errs |-> calls[p].errs, gets |-> calls[p].gets],
                                 device, goarch)} :
           /\ collector' = r.c
           /\ running' = ~r.panicked
           /\ calls' = [calls EXCEPT ![p] =
                  [done |-> @.done + 1,
                   start |-> IF @.done = 0 THEN collector ELSE @.start,
                   fetched |-> [@.fetched EXCEPT ![Endpoints[calls[p].done + 1]] =
                                   device[Endpoints[calls[p].done + 1]]],
                   errs |-> r.errs, gets |-> r.gets]]
    /\ UNCHANGED <<goarch, device, log, changes, arg, ret>>

\* invocation p sends the series of the 23 vectors as they are now
EmitStep(p) ==
    /\ running
    /\ calls[p].done = Len(Endpoints)
    /\ log' = Append(log,
           [device |-> calls[p].fetched, errs |-> calls[p].errs,
            gets |-> calls[p].gets, returned |-> TRUE,
            snapshot |-> Emit(collector), start |-> calls[p].start])
    /\ calls' = [calls EXCEPT ![p].done = Len(Endpoints) + 1]
    /\ UNCHANGED <<goarch, device, collector, running, changes, arg, ret>>

NextConcurrent == \E p \in 1..MaxConcurrent : SectionStep(p) \/ EmitStep(p)

SpecConcurrent == InitConcurrent /\ [][NextConcurrent]_vars

(***************************************************************************)
(* What the claims speak of: the scrapes made so far (log), the answers    *)
(* the modem gave in each, and the series of each snapshot.                *)
(***************************************************************************)
Scrapes == 1..Len(log)

TransportFails(resp) == ~resp.sent \/ resp.status # StatusOK \/ ~resp.read

SingleRecord == {"getLinkStatus.asp", "getSysInfo.asp"}

AllStrings(obj) == \A k \in DOMAIN obj : obj[k].t = "string"

DecodeFails(e, resp) ==
    /\ ~TransportFails(resp)
    /\ \/ ~resp.body.ok
       \/ \E k \in 1..Len(resp.body.elems) : ~AllStrings(resp.body.elems[k])
       \/ e \in SingleRecord /\ resp.body.elems = << >>

Succeeds(e, resp) == ~TransportFails(resp) /\ ~DecodeFails(e, resp)

\* the records an answer decodes to; the two single-record endpoints use the first
Records(e, resp) ==
    IF ~Succeeds(e, resp) THEN << >>
    ELSE IF e \in SingleRecord THEN <<resp.body.elems[1]>>
    ELSE resp.body.elems

Series(name, labels) == [name |-> name, labels |-> labels]

SeriesOf(snapshot) == {Series(o.name, o.labels) : o \in snapshot}

\* the series every record of an endpoint is exported as
RecordSeries(e, obj) ==
    CASE e = "dsinfo.asp" ->
           LET l == <<obj.channelId.s, obj.frequency.s, obj.modulation.s>>
           IN  {Series("downstreamPower", l), Series("downstreamSNR", l),
                Series("downstreamFreq", <<obj.channelId.s, obj.modulation.s>>),
                Series("downstreamCorrectables", l),
                Series("downstreamUncorrectables", l), Series("downstreamOctets", l)}
      [] e = "usinfo.asp" ->
           LET l == <<obj.channelId.s, obj.frequency.s, obj.modtype.s>>
           IN  {Series("upstreamPower", l), Series("upstreamSymbolRate", l),
                Series("upstreamFreq", <<obj.channelId.s, obj.modtype.s>>)}
      [] e = "dsofdminfo.asp" ->
           LET f == TrimSpace(obj.Subcarr0freqFreq.s)
               l == <<obj.receive.s, f, obj.ffttype.s>>
           IN  {Series("ofdmDownstreamPower", l), Series("ofdmDownstreamSNR", l),
                Series("ofdmDownstreamFreq", <<obj.receive.s, obj.ffttype.s>>),
                Series("ofdmDownstreamCorrectables", l),
                Series("ofdmDownstreamUncorrectables", l),
                Series("ofdmDownstreamOctets", l),
                Series("ofdmDownstreamLocks", <<obj.receive.s, f, <<"p", "l", "c">>>>),
                Series("ofdmDownstreamLocks", <<obj.receive.s, f, <<"n", "c", "p">>>>),
                Series("ofdmDownstreamLocks", <<obj.receive.s, f, <<"m", "d", "c", "1">>>>)}
      [] e = "usofdminfo.asp" ->
           {Series("ofdmUpstreamState", <<obj.uschindex.s, obj.frequency.s>>)}
      [] e = "getLinkStatus.asp" ->
           {Series("linkStatus", <<obj.LinkDuplex.s>>),
            Series("linkSpeed", <<obj.LinkDuplex.s>>)}
      [] e = "getSysInfo.asp" ->
           {Series("systemInfo",
                   <<obj.hwVersion.s, obj.swVersion.s, obj.serialNumber.s>>)}

\* the series only an active OFDM upstream channel is exported as
ActiveSeries(obj) ==
    LET state == TrimSpace(obj.state.s)
        l == <<obj.uschindex.s, obj.frequency.s, state>>
    IN  [power |-> Series("ofdmUpstreamPower", l),
         freq |-> Series("ofdmUpstreamFreq", <<obj.uschindex.s, state>>),
         bw |-> Series("ofdmUpstreamBandwidth", l)]

\* the metrics that belong to an endpoint
MetricsOf(e) ==
    CASE e = "dsinfo.asp" ->
           {"downstreamPower", "downstreamSNR", "downstreamFreq",
            "downstreamCorrectables", "downstreamUncorrectables", "downstreamOctets"}
      [] e = "usinfo.asp" -> {"upstreamPower", "upstreamFreq", "upstreamSymbolRate"}
      [] e = "dsofdminfo.asp" ->
           {"ofdmDownstreamPower", "ofdmDownstreamSNR", "ofdmDownstreamFreq",
            "ofdmDownstreamCorrectables", "ofdmDownstreamUncorrectables",
            "ofdmDownstreamOctets", "ofdmDownstreamLocks"}
      [] e = "usofdminfo.asp" ->
           {"ofdmUpstreamPower", "ofdmUpstreamFreq", "ofdmUpstreamBandwidth",
            "ofdmUpstreamState"}
      [] e = "getLinkStatus.asp" -> {"linkStatus", "linkSpeed"}
      [] e = "getSysInfo.asp" -> {"systemInfo"}

\* the error counts of an answer's records are counts: none is below zero
CountsFrom0(e, resp) ==
    e \in {"dsinfo.asp", "dsofdminfo.asp"} =>
        \A k \in 1..Len(Records(e, resp)) :
            /\ ~ParseInt(Records(e, resp)[k].correcteds.s).v.neg
            /\ ~ParseInt(Records(e, resp)[k].uncorrect.s).v.neg

WellFormed(e, resp) == Succeeds(e, resp) /\ CountsFrom0(e, resp)

\* exactly one endpoint fails in transport, the other five answer well
OneTransportFailure(dev) ==
    \E e \in EndpointSet :
        /\ TransportFails(dev[e])
        /\ \A o \in EndpointSet \ {e} : WellFormed(o, dev[o])

\* C1: partial-failure isolation.  In every scrape in which exactly one
\* endpoint fails in transport and the other five answer well-formed
\* payloads, Collect returns, and the snapshot has the series of every record
\* of the other five endpoints, whichever endpoint is the failing one.
C1_PartialFailureIsolation ==
    \A i \in Scrapes :
        OneTransportFailure(log[i].device) =>
            /\ log[i].returned
            /\ \A e \in EndpointSet :
                  \A k \in 1..Len(Records(e, log[i].device[e])) :
                      RecordSeries(e, Records(e, log[i].device[e])[k])
                          \subseteq SeriesOf(log[i].snapshot)

\* a first scrape in which one endpoint failed in transport, and which
\* returned a snapshot with the series of the others
C1_Witness ==
    /\ Len(log) >= 1
    /\ OneTransportFailure(log[1].device)
    /\ log[1].returned
    /\ \E e \in log[1].errs : TransportFails(log[1].device[e])
    /\ Cardinality(SeriesOf(log[1].snapshot)) >= 10

\* C2: Collect always succeeds.  Whatever the endpoints answer and whatever
\* scrapes came before, a Collect invocation runs to its end and emits a
\* snapshot.
C2_CollectAlwaysSucceeds == \A i \in Scrapes : log[i].returned

\* C3: idempotence of Collect.  Two successive scrapes against the same
\* answers on all six endpoints yield the same observations: the same
\* names, label values and values.
C3_Idempotence ==
    \A i \in Scrapes :
        (i > 1 /\ log[i - 1].device = log[i].device /\ log[i].returned)
            => log[i].snapshot = log[i - 1].snapshot

\* the last scrape up to the i-th in which the endpoint succeeded, 0 if none
LastSuccess(e, i) ==
    LET ok == {j \in 1..i : Succeeds(e, log[j].device[e])}
    IN  IF ok = {} THEN 0 ELSE CHOOSE j \in ok : \A k \in ok : k <= j

\* the observations of a snapshot for one series
Observed(snapshot, series) ==
    {o.value : o \in {p \in snapshot : Series(p.name, p.labels) = series}}

\* the count a field of a record reports, as the number it is exported as
Reported(text) == FFromInt(ParseInt(text).v)

ErrorCounts(e, obj) ==
    LET l == IF e = "dsinfo.asp"
             THEN <<obj.channelId.s, obj.frequency.s, obj.modulation.s>>
             ELSE <<obj.receive.s, TrimSpace(obj.Subcarr0freqFreq.s), obj.ffttype.s>>
        p == IF e = "dsinfo.asp" THEN "downstream" ELSE "ofdmDownstream"
    IN  {[series |-> Series(p \o "Correctables", l), count |-> Reported(obj.correcteds.s)],
         [series |-> Series(p \o "Uncorrectables", l), count |-> Reported(obj.uncorrect.s)]}

\* C4: error counts are overwritten, not accumulated.  After any sequence of
\* scrapes, the correctable and the uncorrectable error observation of a
\* downstream channel (QAM or OFDM) is the count the device reported for that
\* channel in the most recent successful scrape, also when the count has
\* decreased since the scrape before.
C4_ErrorCountsOverwritten ==
    \A i \in Scrapes : \A e \in {"dsinfo.asp", "dsofdminfo.asp"} :
        (log[i].returned /\ LastSuccess(e, i) > 0) =>
            LET recs == Records(e, log[LastSuccess(e, i)].device[e])
            IN  \A k \in 1..Len(recs) : \A ec \in ErrorCounts(e, recs[k]) :
                    Observed(log[i].snapshot, ec.series) \subseteq {ec.count}

\* C5: a failed endpoint's observations are omitted for the cycle.  In every
\* scrape in which an endpoint's fetch or decode fails, the snapshot has no
\* observation of a metric of that endpoint, also when the endpoint
\* succeeded in an earlier scrape.
C5_FailedEndpointOmitted ==
    \A i \in Scrapes : \A e \in EndpointSet :
        (log[i].returned /\ ~Succeeds(e, log[i].device[e])) =>
            \A o \in log[i].snapshot : o.name \notin MetricsOf(e)

\* the series the records of a scrape's answers may be exported as
DecodedSeries(dev) ==
    UNION {UNION {RecordSeries(e, Records(e, dev[e])[k])
                    \cup (IF e = "usofdminfo.asp"
                          THEN {ActiveSeries(Records(e, dev[e])[k])[f] :
                                   f \in {"power", "freq", "bw"}}
                          ELSE {}) :
                  k \in 1..Len(Records(e, dev[e]))} : e \in EndpointSet}

\* C6: the aggregator is stateless across scrapes.  A snapshot has
\* observations only for records decoded in that same invocation: a channel
\* of an earlier scrape that the current payload lacks has no observation.
C6_StatelessAcrossScrapes ==
    \A i \in Scrapes :
        log[i].returned => SeriesOf(log[i].snapshot) \subseteq DecodedSeries(log[i].device)

\* the series of one metric in the snapshot of the i-th scrape, none before
\* the first
SnapshotOf(i, names) ==
    IF i = 0 THEN {} ELSE {o \in log[i].snapshot : o.name \in names}

EmptyLabels(o) == \A k \in 1..Len(o.labels) : o.labels[k] = << >>

EmptyArray(resp) == ~TransportFails(resp) /\ resp.body.ok /\ resp.body.elems = << >>

\* C7: for the system-info and the link-status endpoint, a payload that is
\* a JSON array of zero records is an error of that endpoint: its Get
\* returns an error, and Collect derives no observation from the payload:
\* the endpoint's observations are those of the snapshot before, none of
\* them with empty labels.
C7_EmptySingleRecordIsError ==
    \A i \in Scrapes : \A e \in SingleRecord :
        (EmptyArray(log[i].device[e]) /\ \E k \in 1..Len(log[i].gets) : log[i].gets[k] = e)
            => /\ e \in log[i].errs
               /\ log[i].returned
               /\ SnapshotOf(i, MetricsOf(e)) = SnapshotOf(i - 1, MetricsOf(e))
               /\ \A o \in SnapshotOf(i, MetricsOf(e)) : ~EmptyLabels(o)

\* a second scrape that met an empty system-info array after a first one
\* with a record, and one that met an empty link-status array
C7_Witness ==
    /\ Len(log) = 2
    /\ log[2].returned
    /\ \/ /\ EmptyArray(log[2].device["getSysInfo.asp"])
          /\ "getSysInfo.asp" \in log[2].errs
          /\ SnapshotOf(1, {"systemInfo"}) # {}
       \/ /\ EmptyArray(log[2].device["getLinkStatus.asp"])
          /\ "getLinkStatus.asp" \in log[2].errs
          /\ SnapshotOf(1, {"linkStatus"}) # {}

\* the number a field's text resolves to: 0 when it does not parse
Resolves(text) == ParseFloat(text).v

\* the records of an answer that are exported as the series s when active
ActiveRecordsOf(recs, s) ==
    {k \in 1..Len(recs) :
        /\ FGt(Resolves(recs[k].frequency.s), FZero(FALSE))
        /\ \E f \in {"power", "freq", "bw"} : ActiveSeries(recs[k])[f] = s}

ThreeParts(s) ==
    LET parts == Split(s, <<" ", "+", " ">>)
        highParts == Split(parts[1], <<" ", "*", " ">>)
        wellSplit == Len(parts) = 2 /\ Len(highParts) = 2
        A == ParseFloat(highParts[1])
        B == ParseFloat(highParts[2])
        C == ParseFloat(parts[2])
    IN  IF wellSplit /\ A.err = "nil" /\ B.err = "nil" /\ C.err = "nil"
        THEN [ok |-> TRUE, A |-> A.v, B |-> B.v, C |-> C.v]
        ELSE [ok |-> FALSE]

\* the integer a finite float64 truncates to, whatever its size
Truncated(f) ==
    IF f.e >= 0 THEN I64(f.neg, BShl(f.m, f.e)) ELSE I64(f.neg, BShr(f.m, 0 - f.e).q)

\* an integer of the 64-bit signed range
InInt64(i) == BCmp(i.mag, Two63) < 0 \/ (i.neg /\ i.mag = Two63)

Called == ret # NoResult

IsPlainInteger(s) ==
    LET digits == IF s # << >> /\ s[1] \in {"+", "-"} THEN Tail(s) ELSE s
    IN  digits # << >> /\ \A k \in 1..Len(digits) : IsDigit(digits[k])

\* the integer a plain integer string writes
DecimalValue(s) ==
    I64(s[1] = "-", BFromDigits(IF s[1] \in {"+", "-"} THEN Tail(s) ELSE s, << >>))

\* C10: for every string that is a well-formed plain base-10 integer of the
\* 64-bit signed range, negative ones included, parseComplexOctets returns
\* the value of the direct integer parsing of the string.
C10_PlainIntegerDirect ==
    (Called /\ IsPlainInteger(arg) /\ InInt64(DecimalValue(arg))) =>
        /\ ret = DecimalValue(arg)
        /\ ret = ParseInt(arg).v

\* the call on the least int64, written as a plain integer, has returned it
C10_Witness ==
    /\ Called
    /\ IsPlainInteger(arg)
    /\ InInt64(DecimalValue(arg))
    /\ ret.neg
    /\ ret.mag = Two63

\* the total A*B + C that a string "A * B + C" writes, as the float64 nearest
\* to it (the product and the sum exact, rounded once)
TotalBytes(s) == FFma(ThreeParts(s).A, ThreeParts(s).B, ThreeParts(s).C)

\* C11: the total number of bytes transferred.  For every QAM downstream
\* record whose dsoctets is in the format "A * B + C" (such as
\* "53 * 2e32 + 4142950845"), parseComplexOctets returns the value A*B + C,
\* and the downstream octets observation of the record carries that total.
C11_TotalBytesTransferred ==
    \A i \in Scrapes :
        LET recs == Records("dsinfo.asp", log[i].device["dsinfo.asp"])
        IN  log[i].returned =>
              \A k \in 1..Len(recs) :
                  ThreeParts(recs[k].dsoctets.s).ok =>
                      Observed(log[i].snapshot,
                               Series("downstreamOctets",
                                      <<recs[k].channelId.s, recs[k].frequency.s,
                                        recs[k].modulation.s>>))
                          = {TotalBytes(recs[k].dsoctets.s)}

\* 1 when the text, with the white space around it removed, is the token
Normalized(text, token) == Flag(TrimSpace(text) = token)

\* C12: token-to-boolean normalization trims before comparing.  For the three
\* OFDM downstream lock flags (against "YES"), the OFDM upstream state
\* (against "OPERATE") and the link status (against "Up"), the observation is
\* 1 exactly when the field without its leading and trailing white space is
\* the token, and 0 otherwise: " OPERATE " and " Up " give 1, " yes", "no"
\* and "" give 0.
C12_TokensTrimmed ==
    \A i \in Scrapes :
        LET now == log[i].snapshot
            ds == Records("dsofdminfo.asp", log[i].device["dsofdminfo.asp"])
            us == Records("usofdminfo.asp", log[i].device["usofdminfo.asp"])
            link == Records("getLinkStatus.asp", log[i].device["getLinkStatus.asp"])
        IN  log[i].returned =>
              /\ \A k \in 1..Len(ds) :
                   LET l == <<ds[k].receive.s, TrimSpace(ds[k].Subcarr0freqFreq.s)>>
                   IN  /\ Observed(now, Series("ofdmDownstreamLocks", Append(l, <<"p", "l", "c">>)))
                            = {Normalized(ds[k].plclock.s, <<"Y", "E", "S">>)}
                       /\ Observed(now, Series("ofdmDownstreamLocks", Append(l, <<"n", "c", "p">>)))
                            = {Normalized(ds[k].ncplock.s, <<"Y", "E", "S">>)}
                       /\ Observed(now, Series("ofdmDownstreamLocks", Append(l, <<"m", "d", "c", "1">>)))
                            = {Normalized(ds[k].mdc1lock.s, <<"Y", "E", "S">>)}
              /\ \A k \in 1..Len(us) :
                   Observed(now, Series("ofdmUpstreamState",
                                        <<us[k].uschindex.s, us[k].frequency.s>>))
                       = {Normalized(us[k].state.s, <<"O", "P", "E", "R", "A", "T", "E">>)}
              /\ \A k \in 1..Len(link) :
                   Observed(now, Series("linkStatus", <<link[k].LinkDuplex.s>>))
                       = {Normalized(link[k].LinkStatus.s, <<"U", "p">>)}

\* the number a numeric field is exported as when a field that does not
\* parse counts as 0
Degraded(text) == IF ParseFloat(text).err = "nil" THEN ParseFloat(text).v ELSE FZero(FALSE)

\* the power, signal-to-noise, symbol-rate and link-speed gauges of a record,
\* each with the text of its field (the frequency gauges, whose series two
\* records of a payload may share, are C18's)
NumericFields(e, obj) ==
    CASE e = "dsinfo.asp" ->
           LET l == <<obj.channelId.s, obj.frequency.s, obj.modulation.s>>
           IN  {[series |-> Series("downstreamPower", l), text |-> obj.signalStrength.s],
                [series |-> Series("downstreamSNR", l), text |-> obj.snr.s]}
      [] e = "usinfo.asp" ->
           LET l == <<obj.channelId.s, obj.frequency.s, obj.modtype.s>>
           IN  {[series |-> Series("upstreamPower", l), text |-> obj.signalStrength.s],
                [series |-> Series("upstreamSymbolRate", l), text |-> obj.bandwidth.s]}
      [] e = "dsofdminfo.asp" ->
           LET l == <<obj.receive.s, TrimSpace(obj.Subcarr0freqFreq.s), obj.ffttype.s>>
           IN  {[series |-> Series("ofdmDownstreamPower", l), text |-> obj.plcpower.s],
                [series |-> Series("ofdmDownstreamSNR", l), text |-> obj.SNR.s]}
      [] e = "getLinkStatus.asp" ->
           {[series |-> Series("linkSpeed", <<obj.LinkDuplex.s>>),
             text |-> TrimSuffix(obj.LinkSpeed.s, <<"M", "b", "p", "s">>)]}
      [] OTHER -> {}

\* C13: per-field degradation.  In every scrape that returns a snapshot, the
\* observation of each numeric field of each decoded record is the number
\* the field parses to, and 0 when the field cannot be parsed, whatever the
\* other fields, the other records and the other endpoints hold.
C13_PerFieldDegradation ==
    \A i \in Scrapes : \A e \in EndpointSet :
        log[i].returned =>
            LET recs == Records(e, log[i].device[e])
            IN  \A k \in 1..Len(recs) : \A nf \in NumericFields(e, recs[k]) :
                    Observed(log[i].snapshot, nf.series) = {Degraded(nf.text)}

\* the i-th scrape sent a request to the endpoint
Asked(i, e) == \E k \in 1..Len(log[i].gets) : log[i].gets[k] = e

\* the answer is a JSON array of flat objects, each value a string or a number
FlatObjects(resp) ==
    /\ ~TransportFails(resp)
    /\ resp.body.ok
    /\ \A k \in 1..Len(resp.body.elems) : \A f \in DOMAIN resp.body.elems[k] :
           resp.body.elems[k][f].t \in {"string", "number"}

\* C14: the decoders accept textual and numeric field values.  A payload that
\* is a JSON array of flat objects decodes whether a field's value is a JSON
\* string or a JSON number: the endpoint's Get returns no error and the
\* endpoint is not skipped (an array of zero records for link status and
\* system info aside, which is C7's).
C14_NumericFieldsDecode ==
    \A i \in Scrapes : \A e \in EndpointSet :
        (/\ Asked(i, e)
         /\ FlatObjects(log[i].device[e])
         /\ ~(e \in SingleRecord /\ EmptyArray(log[i].device[e])))
            => e \notin log[i].errs

\* the snapshot an invocation gives when no other runs beside it: Collect from
\* the collector as the invocation found it, on the answers it fetched
Alone(entry) == Emit(CollectRun(entry.start, entry.device, goarch).c)

\* C15: concurrent scrapes are isolated.  When two Collect invocations
\* interleave, in any order, the snapshot each returns is the snapshot it
\* would have produced running alone on the answers it fetched: no value
\* written by the other appears in it, and no error count is added twice.
C15_ConcurrentIsolation ==
    \A i \in Scrapes : log[i].snapshot = Alone(log[i])

\* C16: every snapshot contains at most one system-info presence
\* observation, with the value 1 and with the hardware version, software
\* version and serial number of the record decoded in that scrape as labels,
\* also after scrapes between which the device's identity fields changed.
C16_SingleSystemInfo ==
    \A i \in Scrapes :
        LET obs == SnapshotOf(i, {"systemInfo"})
            recs == Records("getSysInfo.asp", log[i].device["getSysInfo.asp"])
        IN  log[i].returned =>
              /\ Cardinality(obs) <= 1
              /\ \A k \in 1..Len(recs) : \A o \in obs :
                    /\ o.value = FOne
                    /\ o.labels = <<recs[k].hwVersion.s, recs[k].swVersion.s,
                                    recs[k].serialNumber.s>>

\* how many of the requests of the i-th scrape went to the endpoint
GetsTo(i, e) == Cardinality({k \in 1..Len(log[i].gets) : log[i].gets[k] = e})

\* C17: each Collect invocation issues exactly one GET to each of the six
\* endpoints, six requests in all, whatever the outcome of each: a failed
\* endpoint is not retried and no later endpoint is skipped.
C17_OneGetPerEndpoint ==
    \A i \in Scrapes :
        /\ Len(log[i].gets) = Len(Endpoints)
        /\ \A e \in EndpointSet : GetsTo(i, e) = 1

ArrayEndpoints == {"dsinfo.asp", "usinfo.asp", "dsofdminfo.asp", "usofdminfo.asp"}

\* the observations of a metric in a snapshot that belong to the records of
\* a payload
ObservationsOf(snapshot, e, recs, metric) ==
    {o \in snapshot :
        /\ o.name = metric
        /\ \E k \in 1..Len(recs) : Series(o.name, o.labels) \in RecordSeries(e, recs[k])}

\* the observations a record has of a metric: three lock flags, one of any other
PerRecord(metric) == IF metric = "ofdmDownstreamLocks" THEN 3 ELSE 1

\* the metrics every record of an endpoint is exported as (the three of an
\* active OFDM upstream channel aside, which are C8's)
RecordMetrics(e) ==
    MetricsOf(e) \ {"ofdmUpstreamPower", "ofdmUpstreamFreq", "ofdmUpstreamBandwidth"}

\* C18: one observation per declared metric per record.  For a decoded
\* payload of n records the snapshot contains n distinct observations of each
\* metric declared for the endpoint, also when two records differ only in
\* frequency (same channel id and modulation).
C18_OneObservationPerRecord ==
    \A i \in Scrapes : \A e \in ArrayEndpoints :
        LET recs == Records(e, log[i].device[e])
        IN  log[i].returned =>
              \A metric \in RecordMetrics(e) :
                  Cardinality(ObservationsOf(log[i].snapshot, e, recs, metric))
                      = Len(recs) * PerRecord(metric)

\* C19: for the four array endpoints a payload of zero records is valid.  The
\* endpoint's Get returns no error, Collect logs no failure for the endpoint
\* and sets no observation from it: in the snapshot the invocation returns,
\* the observations of the endpoint's metrics are those of the snapshot
\* before (none in a first scrape).
C19_EmptyArrayIsValid ==
    \A i \in Scrapes : \A e \in ArrayEndpoints :
        (EmptyArray(log[i].device[e]) /\ Asked(i, e)) =>
            /\ e \notin log[i].errs
            /\ log[i].returned =>
                  SnapshotOf(i, MetricsOf(e)) = SnapshotOf(i - 1, MetricsOf(e))

\* a second scrape that met an empty QAM downstream array after a first one
\* with a channel, logged no failure for it and returned the channel's
\* observations as they were
C19_Witness ==
    /\ Len(log) = 2
    /\ log[2].returned
    /\ EmptyArray(log[2].device["dsinfo.asp"])
    /\ Asked(2, "dsinfo.asp")
    /\ "dsinfo.asp" \notin log[2].errs
    /\ SnapshotOf(1, MetricsOf("dsinfo.asp")) # {}
    /\ SnapshotOf(2, MetricsOf("dsinfo.asp")) = SnapshotOf(1, MetricsOf("dsinfo.asp"))

\* the string is no "A * B + C" of three numbers: one of the two splits does
\* not give two parts, or one of the three parts does not parse
Malformed(s) == ~ThreeParts(s).ok

\* C20: parseComplexOctets returns 0 for every input that is not a plain
\* integer and is malformed: splitting on " + " does not give exactly two
\* parts, or splitting the first part on " * " does not, or one of
\* multiplier, factor and remainder fails to parse as a number.  In
\* particular "not a number" returns 0.
C20_MalformedIsZero ==
    /\ (Called /\ ParseInt(arg).err # "nil" /\ Malformed(arg)) => ret = I64Zero
    /\ (Called /\ arg = <<"n", "o", "t", " ", "a", " ", "n", "u", "m", "b", "e", "r">>) => ret = I64Zero

\* the call on "a * 2 + 1", which splits well and whose multiplier does not
\* parse, has returned 0
C20_Witness ==
    /\ Called
    /\ arg = <<"a", " ", "*", " ", "2", " ", "+", " ", "1">>
    /\ Len(Split(arg, <<" ", "+", " ">>)) = 2
    /\ Len(Split(Split(arg, <<" ", "+", " ">>)[1], <<" ", "*", " ">>)) = 2
    /\ ParseFloat(Split(Split(arg, <<" ", "+", " ">>)[1], <<" ", "*", " ">>)[1]).err # "nil"
    /\ Malformed(arg)
    /\ ret = I64Zero


\* the counts an answer's records report for one series, added up
RECURSIVE CountIn(_, _, _, _)
CountIn(e, series, recs, k) ==
    IF k = 0 THEN FZero(FALSE)
    ELSE LET here == {ec \in ErrorCounts(e, recs[k]) : ec.series = series}
             rest == CountIn(e, series, recs, k - 1)
         IN  IF here = {} THEN rest ELSE FAdd(rest, (CHOOSE ec \in here : TRUE).count)

\* the counts reported for one series in the scrapes up to the i-th in which
\* the endpoint was decoded, added up
RECURSIVE CountedUpTo(_, _, _)
CountedUpTo(e, series, i) ==
    IF i = 0 THEN FZero(FALSE)
    ELSE LET recs == Records(e, log[i].device[e])
         IN  FAdd(CountedUpTo(e, series, i - 1), CountIn(e, series, recs, Len(recs)))

\* the error count series of the downstream channels decoded up to the i-th scrape
ErrorSeriesUpTo(e, i) ==
    UNION {UNION {{ec.series : ec \in ErrorCounts(e, Records(e, log[j].device[e])[k])} :
                     k \in 1..Len(Records(e, log[j].device[e]))} : j \in 1..i}

SeriesIn(col, names) == [n \in names |-> col[n]]

\* what a scrape with a failed endpoint does to that endpoint's series: the
\* step that appends the scrape to the log leaves them as they were, and the
\* scrape's snapshot has for them what the snapshot of the endpoint's last
\* successful scrape had
FailedEndpointFrame ==
    Len(log') > Len(log) =>
        LET entry == log'[Len(log')]
        IN  \A e \in entry.errs :
                /\ ~Succeeds(e, entry.device[e])
                /\ SeriesIn(collector', MetricsOf(e)) = SeriesIn(collector, MetricsOf(e))
                /\ entry.returned =>
                      {o \in entry.snapshot : o.name \in MetricsOf(e)}
                          = SnapshotOf(LastSuccess(e, Len(log)), MetricsOf(e))

\* C22: when an endpoint's fetch or decode fails in a Collect invocation,
\* the invocation leaves every metric series of that endpoint unchanged (none
\* is added, removed or modified), so the snapshot carries for the endpoint
\* the values set by its last successful scrape.
C22_FailedEndpointUnchanged == [][FailedEndpointFrame]_vars

\* a second scrape in which the downstream endpoint failed, after a first in
\* which it succeeded, and whose snapshot has the first one's downstream
\* observations
C22_Witness ==
    /\ Len(log) = 2 /\ log[2].returned
    /\ "dsinfo.asp" \in log[2].errs
    /\ LastSuccess("dsinfo.asp", 2) = 1
    /\ SnapshotOf(1, MetricsOf("dsinfo.asp")) # {}
    /\ SnapshotOf(2, MetricsOf("dsinfo.asp")) = SnapshotOf(1, MetricsOf("dsinfo.asp"))
    /\ SeriesIn(collector, MetricsOf("dsinfo.asp")) # SeriesIn(NewMetricsCollector, MetricsOf("dsinfo.asp"))


\* the first n endpoints in the order of Collect
FirstEndpoints(n) == SubSeq(Endpoints, 1, n)

\* one step of an invocation: either it asks the next endpoint in the order
\* and works on that endpoint's vectors alone, sending nothing, or it has
\* asked all six and sends the series, changing none
OrderedStep ==
    /\ \A p \in 1..MaxConcurrent :
          LET before == calls[p].gets
              after == calls'[p].gets
          IN  /\ after = FirstEndpoints(Len(after))
              /\ after # before =>
                    /\ after = Append(before, Endpoints[Len(before) + 1])
                    /\ log' = log
                    /\ \A n \in MetricNames \ MetricsOf(after[Len(after)]) :
                          collector'[n] = collector[n]
    /\ log' # log =>
          /\ \E p \in 1..MaxConcurrent :
                /\ calls[p].gets = Endpoints
                /\ log' = Append(log, log'[Len(log')])
                /\ log'[Len(log')].gets = calls[p].gets
          /\ collector' = collector
          /\ log'[Len(log')].snapshot = Emit(collector)

\* C23: within one Collect invocation the endpoints are processed strictly
\* in the order QAM downstream, QAM upstream, OFDM downstream, OFDM
\* upstream, link status, system info, and no observation is sent to the
\* output channel before all six have been fetched and processed.
C23_OrderedThenEmit == [][OrderedStep]_vars

\* one invocation has sent its series after its six requests in the order,
\* while another has done its first three sections and sent nothing
C23_Witness ==
    /\ Len(log) = 1
    /\ log[1].gets = Endpoints
    /\ log[1].snapshot # {}
    /\ \E p \in 1..MaxConcurrent :
          /\ calls[p].gets = <<"dsinfo.asp", "usinfo.asp", "dsofdminfo.asp">>
          /\ collector["ofdmDownstreamPower"] # << >>

====
